---- MODULE Spec2Model ----
(***************************************************************************)
(* Structured identifier recognition and confidence scoring: the           *)
(* recognizers of presidio_analyzer/predefined_recognizers.                *)
(*                                                                         *)
(* The recognizers hold no mutable state between calls, so the state of    *)
(* the model is the last call: which recognizer (or helper) ran, the       *)
(* arguments it was given, and what it returned or raised.                 *)
(*                                                                         *)
(* Strings are sequences of one-character strings.  Scores are integers    *)
(* in units of 1/ScoreOne (the code's floats are decimal fractions with    *)
(* at most five places on every path modelled here).                       *)
(***************************************************************************)
EXTENDS Integers, Sequences, FiniteSets, TLC

VARIABLES
    pc,           \* "called": the call is pending; "returned": it has finished
    recognizer,   \* the method called
    input,        \* the arguments of the call
    returned      \* [value |-> what it returned, raised |-> the exception, or "none"]

vars == <<pc, recognizer, input, returned>>

\* The score 1.0.
ScoreOne == 100000

\* The longest candidate list handed to a recognizer's post-processing.
MaxCands == 3

\* A call that has not finished has returned nothing yet.
NoReturn == [value |-> <<>>, raised |-> "none"]

Return(v) == [value |-> v, raised |-> "none"]
Raise(e) == [value |-> <<>>, raised |-> e]

\* A method is called with arguments from `inputs`.
Called(method, inputs) ==
    /\ pc = "called"
    /\ recognizer = method
    /\ input \in inputs
    /\ returned = NoReturn

\* A call of `method` is pending.
Pending(method) == pc = "called" /\ recognizer = method

\* The pending call finishes with outcome `out`.
Finish(out) ==
    /\ pc' = "returned"
    /\ returned' = out
    /\ UNCHANGED <<recognizer, input>>

Returned(method) == pc = "returned" /\ recognizer = method

\* All sequences over S of length at most n.
SeqsUpTo(S, n) == UNION {[1..k -> S] : k \in 0..n}

Min(a, b) == IF a < b THEN a ELSE b
Max(a, b) == IF a > b THEN a ELSE b

(***************************************************************************)
(* Candidates: what PatternRecognizer.analyze hands to a subclass.         *)
(***************************************************************************)

\* Character offsets used for candidate spans.
Positions == {0, 3, 5, 8}

\* Scores of the Canadian driver's-licence patterns (0.4, 0.85, 0.95).
CanadaScores == {40000, 85000, 95000}

Spans == {sp \in Positions \X Positions : sp[1] < sp[2]}

CanadaCandidates ==
    {[entity_type |-> "CANADA_DRIVERS_LICENCE", start |-> sp[1], end |-> sp[2], score |-> sc] :
        sp \in Spans, sc \in CanadaScores}

(***************************************************************************)
(* CanadaDriversLicenceRecognizer.analyze: the overlap filter.             *)
(***************************************************************************)

\* An overlap test with strict comparisons on both sides: two spans that
\* start at the same offset are not seen to overlap.
SpansOverlapStrict(fr, result) ==
    \/ (fr.start < result.start /\ result.start < fr.end)
    \/ (result.start < fr.start /\ fr.start < result.end)

\* The overlap test of the filter.
SpansOverlap(fr, result) ==
    \/ (fr.start <= result.start /\ result.start < fr.end)
    \/ (result.start <= fr.start /\ fr.start < result.end)

\* An inner loop that merges: a kept result that overlaps `result` is
\* widened to cover both spans and takes the higher score.
RECURSIVE ScanFilteredWidening(_, _, _, _)
ScanFilteredWidening(filtered, result, j, overlap) ==
    IF j > Len(filtered)
    THEN [filtered |-> filtered, overlap |-> overlap]
    ELSE LET fr == filtered[j]
             hit == SpansOverlap(fr, result)
             upd == IF hit
                    THEN [fr EXCEPT !.start = Min(fr.start, result.start),
                                    !.end = Max(fr.end, result.end),
                                    !.score = Max(fr.score, result.score)]
                    ELSE fr
         IN ScanFilteredWidening([filtered EXCEPT ![j] = upd], result, j + 1, overlap \/ hit)

\* An inner loop that never overwrites: a kept result that overlaps `result`
\* stays as it is, whatever the two scores.
RECURSIVE ScanFilteredKeepsFirst(_, _, _, _)
ScanFilteredKeepsFirst(filtered, result, j, overlap) ==
    IF j > Len(filtered)
    THEN [filtered |-> filtered, overlap |-> overlap]
    ELSE ScanFilteredKeepsFirst(filtered, result, j + 1,
                                overlap \/ SpansOverlap(filtered[j], result))

\* The inner loop: every kept result fr that overlaps `result` and has a
\* lower score is overwritten in place with result's span and score.
RECURSIVE ScanFiltered(_, _, _, _)
ScanFiltered(filtered, result, j, overlap) ==
    IF j > Len(filtered)
    THEN [filtered |-> filtered, overlap |-> overlap]
    ELSE LET fr == filtered[j]
             hit == SpansOverlap(fr, result)
             upd == IF hit /\ result.score > fr.score
                    THEN [fr EXCEPT !.start = result.start,
                                    !.end = result.end,
                                    !.score = result.score]
                    ELSE fr
         IN ScanFiltered([filtered EXCEPT ![j] = upd], result, j + 1, overlap \/ hit)

\* The outer loop over the results of the base analyze.
RECURSIVE FilterOverlaps(_, _, _)
FilterOverlaps(results, i, filtered) ==
    IF i > Len(results)
    THEN filtered
    ELSE LET scan == ScanFiltered(filtered, results[i], 1, FALSE)
         IN FilterOverlaps(results, i + 1,
                IF scan.overlap THEN scan.filtered
                ELSE Append(scan.filtered, results[i]))

\* The list analyze returns for the candidate list `results`.
CanadaFilter(results) == FilterOverlaps(results, 1, <<>>)

CanadaAnalyze ==
    /\ Pending("CanadaDriversLicenceRecognizer.analyze")
    /\ Finish(Return(CanadaFilter(input)))

(***************************************************************************)
(* AllCreditCardNumberRecognizer.analyze, for the American Express         *)
(* patterns.  The text is given by the card numbers that occur in it, in   *)
(* text order: where each occurs, which of the three American Express      *)
(* regexes matches it, and what _is_ignored and _is_valid_credit_card say  *)
(* of the matched text.                                                    *)
(***************************************************************************)

\* PATTERNS['American Express']: the regex (by its separator) and the score.
AmexPatterns ==
    << [regex |-> "spaced", score |-> ScoreOne],
       [regex |-> "hyphenated", score |-> ScoreOne],
       [regex |-> "plain", score |-> ScoreOne],
       [regex |-> "spaced", score |-> 80000],
       [regex |-> "spaced", score |-> 60000] >>

CardOccurrences ==
    [start : Positions, end : Positions,
     regex : {"spaced", "hyphenated", "plain"}, ignored : BOOLEAN, luhn : BOOLEAN]

\* re.finditer yields the matches of one regex from left to right, none
\* overlapping another.
CardTexts ==
    {occ \in SeqsUpTo(CardOccurrences, 2) :
        /\ \A i \in 1..Len(occ) : occ[i].start < occ[i].end
        /\ \A i \in 1..(Len(occ) - 1) : occ[i].end <= occ[i + 1].start}

\* The matches of one pattern, from occurrence k on.
RECURSIVE PatternMatches(_, _, _)
PatternMatches(occ, pattern, k) ==
    IF k > Len(occ)
    THEN <<>>
    ELSE (IF occ[k].regex = pattern.regex /\ ~occ[k].ignored /\ occ[k].luhn
          THEN << [entity_type |-> "CREDIT_CARD", start |-> occ[k].start,
                   end |-> occ[k].end, score |-> pattern.score] >>
          ELSE <<>>)
         \o PatternMatches(occ, pattern, k + 1)

\* The loop over the patterns, from pattern p on.
RECURSIVE AllPatternMatches(_, _)
AllPatternMatches(occ, p) ==
    IF p > Len(AmexPatterns)
    THEN <<>>
    ELSE PatternMatches(occ, AmexPatterns[p], 1) \o AllPatternMatches(occ, p + 1)

AllCreditCardAnalyze ==
    /\ Pending("AllCreditCardNumberRecognizer.analyze")
    /\ Finish(Return(AllPatternMatches(input, 1)))

InitOverlap ==
    \/ Called("CanadaDriversLicenceRecognizer.analyze",
              SeqsUpTo(CanadaCandidates, MaxCands))
    \/ Called("AllCreditCardNumberRecognizer.analyze", CardTexts)

NextOverlap ==
    \/ CanadaAnalyze
    \/ AllCreditCardAnalyze

SpecOverlap == InitOverlap /\ [][NextOverlap]_vars

\* The set of results a list holds.
ResultSet(list) == {list[i] : i \in 1..Len(list)}

\* The list `list` taken in the order f, a permutation of its indices.
Reordered(list, f) == [i \in 1..Len(list) |-> list[f[i]]]

\* Two spans [start, end) share no offset.
Disjoint(a, b) == a.end <= b.start \/ b.end <= a.start

\* C1: the list one recognizer's analyze returns never holds two results
\* whose spans overlap (the Canadian overlap filter, and the credit-card
\* recognizer when several patterns match one span).
C1_NoOverlapInReturnedList ==
    (pc = "returned" /\ recognizer \in {"CanadaDriversLicenceRecognizer.analyze",
                                         "AllCreditCardNumberRecognizer.analyze"})
    => \A i, j \in 1..Len(returned.value) :
           i # j => Disjoint(returned.value[i], returned.value[j])

\* C2: the overlap filter is order-independent: every permutation of the
\* candidate list yields the same set of results.
C2_OrderIndependent ==
    Returned("CanadaDriversLicenceRecognizer.analyze")
    => \A f \in Permutations(1..Len(input)) :
           ResultSet(CanadaFilter(Reordered(input, f))) = ResultSet(returned.value)

\* C5: two candidates with an identical span, in either order, are reduced
\* to exactly one result with that span and the higher of the two scores.
C5_IdenticalSpansKeepHigherScore ==
    (/\ Returned("CanadaDriversLicenceRecognizer.analyze")
     /\ Len(input) = 2
     /\ input[1].start = input[2].start
     /\ input[1].end = input[2].end)
    => /\ Len(returned.value) = 1
       /\ returned.value[1].start = input[1].start
       /\ returned.value[1].end = input[1].end
       /\ returned.value[1].score = Max(input[1].score, input[2].score)

\* The spec's example: (0,8) at 0.4, then (0,8) at 0.85.
C5_Witness ==
    /\ Returned("CanadaDriversLicenceRecognizer.analyze")
    /\ Len(input) = 2
    /\ input[1].start = 0 /\ input[1].end = 8 /\ input[1].score = 40000
    /\ input[2].start = 0 /\ input[2].end = 8 /\ input[2].score = 85000
    /\ Len(returned.value) = 1
    /\ returned.value[1].score = 85000

(***************************************************************************)
(* Context scoring.  A text is given by what the scoring code reads of     *)
(* it: whether a keyword list has a hit (in the whole text, or in the      *)
(* window around a span), and what a validator says of the text under a    *)
(* span.                                                                   *)
(***************************************************************************)

\* The longest result list handed to a scoring analyze.
MaxScored == 2

\* Pattern base scores: 0.0, 0.5, 0.85, 1.0.
BaseScores == {0, 50000, 85000, ScoreOne}

\* The spans of the scored candidates.
ScoredSpans == {<<0, 3>>, <<5, 8>>}

\* The results super().analyze returns for entity type `entity`.
BaseResults(entity) ==
    {[entity_type |-> entity, start |-> sp[1], end |-> sp[2], score |-> sc] :
        sp \in ScoredSpans, sc \in BaseScores}

SpanOf(result) == <<result.start, result.end>>

\* score * (num / den), for the decimal fractions of the code.
Times(score, num, den) == (score * num) \div den

(* AustraliaBankAccountRecognizer.analyze *)

\* What the text says to the Australian recognizer: a CONTEXT word in the
\* text, a NEGATIVE_CONTEXT word in the text, and per span whether the
\* matched text holds "ddd-ddd-dddddd" and with a known BSB or not.
AustraliaTexts ==
    [context : BOOLEAN, negative : BOOLEAN,
     bsb : [ScoredSpans -> {"none", "known", "unknown"}]]

\* _match_known_bsb
MatchKnownBsb(bsb) == IF bsb = "known" THEN ScoreOne ELSE 50000

\* `result.score *= 0.3` when no context word is in the text.
AustraliaPenalty(text, score) ==
    IF ~text.context THEN Times(score, 3, 10) ELSE score

\* One result's score after the three adjustments of the loop body.
AustraliaScore(text, result) ==
    LET s1 == AustraliaPenalty(text, result.score)
        s2 == IF text.negative THEN Times(s1, 15, 100) ELSE s1
    IN IF result.entity_type = "AUSTRALIA_BANK_ACCOUNT" /\ text.bsb[SpanOf(result)] # "none"
       THEN MatchKnownBsb(text.bsb[SpanOf(result)])
       ELSE s2

AustraliaResults(text, results) ==
    LET rescored == [k \in 1..Len(results) |->
                        [results[k] EXCEPT !.score = AustraliaScore(text, results[k])]]
    IN SelectSeq(rescored, LAMBDA r : r.score > 30000)

AustraliaAnalyze ==
    /\ Pending("AustraliaBankAccountRecognizer.analyze")
    /\ Finish(Return(AustraliaResults(input.text, input.results)))

(* MedicalRecordNumberRecognizer.enhance_pattern_result *)

\* CONTEXT, in order.
MrnContext == <<"medical record number", "person number", "mrn">>

\* The boost loop: +0.1, capped at 1.0, for each context word in the window.
RECURSIVE MrnBoost(_, _, _)
MrnBoost(score, found, k) ==
    IF k > Len(MrnContext) THEN score
    ELSE MrnBoost(IF MrnContext[k] \in found THEN Min(score + 10000, ScoreOne) ELSE score,
                  found, k + 1)

MrnEnhancePatternResult ==
    /\ Pending("MedicalRecordNumberRecognizer.enhance_pattern_result")
    /\ Finish(Return([input.pattern_result EXCEPT
                        !.score = MrnBoost(input.pattern_result.score, input.found, 1)]))

(* SSNAndTINRecognizer.analyze *)

\* Per span: _has_context of the window, invalidate_result of the matched text.
SsnTexts == [has_context : [ScoredSpans -> BOOLEAN], invalid : [ScoredSpans -> BOOLEAN]]

\* A boost that is not capped.
SsnScoreUncapped(text, result) ==
    IF text.has_context[SpanOf(result)]
    THEN result.score + 40000
    ELSE Times(result.score, 5, 10)

SsnScore(text, result) ==
    IF text.has_context[SpanOf(result)]
    THEN Min(result.score + 40000, ScoreOne)
    ELSE Times(result.score, 5, 10)

SsnResults(text, results) ==
    LET rescored == [k \in 1..Len(results) |->
                        [results[k] EXCEPT !.score = SsnScore(text, results[k])]]
    IN SelectSeq(rescored, LAMBDA r : ~text.invalid[SpanOf(r)])

SsnAnalyze ==
    /\ Pending("SSNAndTINRecognizer.analyze")
    /\ Finish(Return(SsnResults(input.text, input.results)))

(* NetherlandsVATRecognizer.enhance_confidence *)

NlVatEnhanceConfidence ==
    /\ Pending("NetherlandsVATRecognizer.enhance_confidence")
    /\ Finish(Return([input.pattern_result EXCEPT
                        !.score = IF input.context_present THEN 90000 ELSE 50000]))

(* USDriversLicenseRecognizer.enhance_confidence *)

UsDlConfidence(keyword_present, state_present) ==
    IF keyword_present /\ state_present THEN ScoreOne
    ELSE IF keyword_present THEN 75000
    ELSE IF state_present THEN 50000
    ELSE 25000

UsDlEnhanceConfidence ==
    /\ Pending("USDriversLicenseRecognizer.enhance_confidence")
    /\ Finish(Return([input.pattern_result EXCEPT
                        !.score = UsDlConfidence(input.keyword_present, input.state_present)]))

InitScore ==
    \/ Called("AustraliaBankAccountRecognizer.analyze",
              [text : AustraliaTexts,
               results : SeqsUpTo(BaseResults("AUSTRALIA_BANK_ACCOUNT"), MaxScored)])
    \/ Called("MedicalRecordNumberRecognizer.enhance_pattern_result",
              [found : SUBSET {MrnContext[k] : k \in 1..Len(MrnContext)},
               pattern_result : BaseResults("MRN")])
    \/ Called("SSNAndTINRecognizer.analyze",
              [text : SsnTexts, results : SeqsUpTo(BaseResults("US_SSN_ITIN"), MaxScored)])
    \/ Called("NetherlandsVATRecognizer.enhance_confidence",
              [context_present : BOOLEAN, pattern_result : BaseResults("NETHERLANDS_VAT_NUMBER")])
    \/ Called("USDriversLicenseRecognizer.enhance_confidence",
              [keyword_present : BOOLEAN, state_present : BOOLEAN,
               pattern_result : BaseResults("US_DRIVERS_LICENSE")])

NextScore ==
    \/ AustraliaAnalyze
    \/ MrnEnhancePatternResult
    \/ SsnAnalyze
    \/ NlVatEnhanceConfidence
    \/ UsDlEnhanceConfidence

SpecScore == InitScore /\ [][NextScore]_vars

ListMethods == {"AustraliaBankAccountRecognizer.analyze", "SSNAndTINRecognizer.analyze"}

\* The scores of what a scoring call returned: of each result of a list, or
\* of the one result of a helper.
ReturnedScores ==
    IF recognizer \in ListMethods
    THEN {returned.value[i].score : i \in 1..Len(returned.value)}
    ELSE {returned.value.score}

\* C3: every score a recognizer returns, from analyze and from the scoring
\* helpers, lies in [0.0, 1.0], for every base score in [0, 1] and every
\* combination of context, negative context and validation outcome.
C3_ScoresInUnitInterval ==
    pc = "returned" => \A sc \in ReturnedScores : 0 <= sc /\ sc <= ScoreOne

\* A candidate at 0.85 with a context word in its window is boosted by 0.4
\* and returned capped at 1.0.
C3_Witness ==
    /\ Returned("SSNAndTINRecognizer.analyze")
    /\ Len(input.results) = 1
    /\ input.results[1].score = 85000
    /\ input.text.has_context[SpanOf(input.results[1])]
    /\ Len(returned.value) = 1
    /\ returned.value[1].score = ScoreOne

(***************************************************************************)
(* Strings.  A Python str is a sequence of one-character strings.          *)
(***************************************************************************)

\* The longest string of the exhaustive input set.
MaxStrLen == 4

DigitChars == <<"0", "1", "2", "3", "4", "5", "6", "7", "8", "9">>
UpperChars == <<"A", "B", "C", "D", "E", "F", "G", "H", "I", "J", "K", "L", "M", "N", "O", "P", "Q", "R", "S", "T", "U", "V", "W", "X", "Y", "Z">>
LowerChars == <<"a", "b", "c", "d", "e", "f", "g", "h", "i", "j", "k", "l", "m", "n", "o", "p", "q", "r", "s", "t", "u", "v", "w", "x", "y", "z">>

CharsOf(chars) == {chars[i] : i \in 1..Len(chars)}
DigitSet == CharsOf(DigitChars)
UpperSet == CharsOf(UpperChars)
LowerSet == CharsOf(LowerChars)

\* The 1-based index of each character in its sequence.
IndexOf(chars) == [c \in CharsOf(chars) |-> CHOOSE i \in 1..Len(chars) : chars[i] = c]
DigitIndex == IndexOf(DigitChars)
UpperIndex == IndexOf(UpperChars)
LowerIndex == IndexOf(LowerChars)

IsDigit(c) == c \in DigitSet
IsUpper(c) == c \in UpperSet
IsLower(c) == c \in LowerSet
IsAlpha(c) == IsUpper(c) \/ IsLower(c)
IsSpace(c) == c = " "

\* int(c) of a digit character.
DigitValue(c) == DigitIndex[c] - 1

\* str.isdigit(): every character is a digit and there is at least one.
IsDigitString(str) == str # <<>> /\ \A i \in 1..Len(str) : IsDigit(str[i])

\* str.upper() of one character.
UpperOf(c) == IF IsLower(c) THEN UpperChars[LowerIndex[c]] ELSE c

\* The characters every validator is tried on, in all strings up to
\* MaxStrLen: digits, both separators, a space, an upper- and a lower-case
\* letter.
Alphabet == {"0", "1", "5", "9", " ", "-", "A", "a"}
ShortStrings == SeqsUpTo(Alphabet, MaxStrLen)

\* int(str): surrounding whitespace is stripped and a sign is allowed; what
\* is left must be digits.  ok is FALSE where Python raises ValueError.
IntLiteral(str) ==
    LET idx == {i \in 1..Len(str) : ~IsSpace(str[i])}
        lo == CHOOSE i \in idx : \A j \in idx : i <= j
        hi == CHOOSE i \in idx : \A j \in idx : i >= j
        t == IF idx = {} THEN <<>> ELSE SubSeq(str, lo, hi)
        signed == t # <<>> /\ t[1] \in {"-", "+"}
        body == IF signed THEN Tail(t) ELSE t
    IN [ok |-> IsDigitString(body),
        negative |-> signed /\ t[1] = "-",
        digits |-> body]

\* The decimal number of the first k characters of `digits`, modulo m.
\* Python's int is unbounded; the remainder is taken digit by digit so that
\* no intermediate value grows.
RECURSIVE DigitsMod(_, _, _)
DigitsMod(digits, m, k) ==
    IF k = 0 THEN 0
    ELSE (DigitsMod(digits, m, k - 1) * 10 + DigitValue(digits[k])) % m

\* int(str) % m for a literal int() accepts; Python's % is never negative.
IntMod(lit, m) ==
    LET v == DigitsMod(lit.digits, m, Len(lit.digits))
    IN IF lit.negative THEN (m - v) % m ELSE v

(***************************************************************************)
(* The Luhn validators.                                                    *)
(***************************************************************************)

\* A doubling rule that ignores the length of the number.
AllCcDoublesFromLeft(count, num_digits) == count % 2 = 0

\* `not ((count & 1) ^ odd_even)`, where odd_even = num_digits & 1: whether
\* the digit at 0-based index count is doubled.
AllCcDoubles(count, num_digits) == (count % 2) = (num_digits % 2)

RECURSIVE AllCcLuhnSum(_, _, _)
AllCcLuhnSum(card_number, count, sum_digits) ==
    IF count >= Len(card_number) THEN sum_digits
    ELSE LET d0 == DigitValue(card_number[count + 1])
             d1 == IF AllCcDoubles(count, Len(card_number)) THEN d0 * 2 ELSE d0
             d2 == IF d1 > 9 THEN d1 - 9 ELSE d1
         IN AllCcLuhnSum(card_number, count + 1, sum_digits + d2)

\* AllCreditCardNumberRecognizer._is_valid_credit_card
AllCcIsValidCreditCard(card_number) ==
    LET stripped == SelectSeq(card_number, LAMBDA c : ~(IsSpace(c) \/ c = "-"))
    IN IF ~IsDigitString(stripped) THEN FALSE
       ELSE AllCcLuhnSum(stripped, 0, 0) % 10 = 0

\* sum(digits_of(n)) for 0 <= n <= 99.
SumDigitsOf(n) == (n \div 10) + (n % 10)

\* luhn_checksum: digits[-1::-2] are summed as they are, digits[-2::-2]
\* doubled and their decimal digits summed.
LuhnChecksum(digits) ==
    LET n == Len(digits)
        RECURSIVE Sum(_, _)
        Sum(k, acc) ==
            IF k < 1 THEN acc
            ELSE LET d == DigitValue(digits[k])
                 IN Sum(k - 1, acc + (IF (n - k) % 2 = 0 THEN d ELSE SumDigitsOf(d * 2)))
    IN Sum(n, 0) % 10 = 0

\* CreditCardIssuerRecognizer.validate_result
IssuerValidateResult(pattern_text) ==
    LuhnChecksum(SelectSeq(pattern_text, IsDigit))

\* SwedenNationalIDRecognizer._is_valid_checksum: only the last ten
\* characters count, and int() of a character that is no digit raises.
SwedenIsValidChecksum(national_id) ==
    LET n == Len(national_id)
        last == IF n > 10 THEN SubSeq(national_id, n - 9, n) ELSE national_id
        m == Len(last)
        RECURSIVE Sum(_, _)
        Sum(k, acc) ==
            IF k < 1 THEN acc
            ELSE LET num == DigitValue(last[k])
                     dbl == IF num * 2 > 9 THEN num * 2 - 9 ELSE num * 2
                 IN Sum(k - 1, acc + (IF (m - k) % 2 = 1 THEN dbl ELSE num))
    IN IF \E i \in 1..m : ~IsDigit(last[i])
       THEN Raise("ValueError")
       ELSE Return(Sum(m, 0) % 10 = 0)

(***************************************************************************)
(* The national-identifier validators.                                     *)
(***************************************************************************)

\* NetherlandsNationalIDRecognizer._is_valid_checksum: the loop reads
\* national_id[0..8]; the first index that is past the end raises
\* IndexError, the first character that is no digit ValueError.
NlIsValidChecksum(national_id) ==
    LET bad == {i \in 1..9 : i > Len(national_id) \/ ~IsDigit(national_id[i])}
        first == CHOOSE i \in bad : \A j \in bad : i <= j
        RECURSIVE Sum(_, _)
        Sum(i, total_sum) ==
            IF i > 9 THEN total_sum
            ELSE Sum(i + 1, total_sum + DigitValue(national_id[i]) * (10 - i))
    IN IF bad # {}
       THEN (IF first > Len(national_id) THEN Raise("IndexError") ELSE Raise("ValueError"))
       ELSE Return(Sum(1, 0) % 11 = 0)

\* ODD_VALUES and EVEN_VALUES: the keys are A-Z and 0-9.
ItalyOddLetters == <<1, 0, 5, 7, 9, 13, 15, 17, 19, 21, 2, 4, 18, 20, 11, 3, 6, 8, 12, 14, 16, 10, 22, 25, 24, 23>>
ItalyOddDigits == <<1, 0, 5, 7, 9, 13, 15, 17, 19, 21>>

ItalyHasValue(c) == IsUpper(c) \/ IsDigit(c)
ItalyOddValue(c) ==
    IF IsUpper(c) THEN ItalyOddLetters[UpperIndex[c]]
    ELSE ItalyOddDigits[DigitIndex[c]]
ItalyEvenValue(c) ==
    IF IsUpper(c) THEN UpperIndex[c] - 1 ELSE DigitValue(c)

\* ItalyFiscalCodeRecognizer._validate_checksum: a character of the first
\* fifteen that is no key of the value tables raises KeyError.
ItalyValidateChecksum(code) ==
    LET RECURSIVE Sum(_, _)
        Sum(k, checksum_sum) ==
            IF k > 15 THEN checksum_sum
            ELSE Sum(k + 1, checksum_sum + (IF (k - 1) % 2 = 0
                                            THEN ItalyOddValue(code[k])
                                            ELSE ItalyEvenValue(code[k])))
    IN IF Len(code) # 16 THEN Return(FALSE)
       ELSE IF \E k \in 1..15 : ~ItalyHasValue(code[k]) THEN Raise("KeyError")
       ELSE Return(UpperChars[(Sum(1, 0) % 26) + 1] = code[16])

\* valid_letters
DniLetters == <<"T", "R", "W", "A", "G", "M", "Y", "F", "P", "D", "X", "B", "N", "J", "Z", "S", "Q", "V", "H", "L", "C", "K", "E">>

\* A check that takes the number modulo the 26 letters of the alphabet.
DniIndexMod26(lit) == IntMod(lit, 26) % 23

\* int(dni_number) % 23
DniIndex(lit) == IntMod(lit, 23)

\* SpainDNIRecognizer._validate_dni_checksum: dni[-1] is read before the
\* try block, so the empty string raises IndexError.
SpainValidateDniChecksum(dni) ==
    IF dni = <<>> THEN Raise("IndexError")
    ELSE LET dni_number == SubSeq(dni, 1, Len(dni) - 1)
             dni_letter == dni[Len(dni)]
             lit == IntLiteral(dni_number)
         IN IF ~lit.ok THEN Return(FALSE)
            ELSE Return(DniLetters[DniIndex(lit) + 1] = dni_letter)

\* A rearrangement that drops the first four characters.
IbanRearrangedDropped(iban) ==
    IF Len(iban) > 4 THEN SubSeq(iban, 5, Len(iban)) ELSE <<>>

\* iban[4:] + iban[:4]
IbanRearranged(iban) ==
    IF Len(iban) > 4
    THEN SubSeq(iban, 5, Len(iban)) \o SubSeq(iban, 1, 4)
    ELSE iban

\* str(int(char, 36)) for a letter (A = 10, ..., Z = 35, either case); any
\* other character stands as it is.
IbanNumeric(str) ==
    LET RECURSIVE Conv(_)
        Conv(k) ==
            IF k > Len(str) THEN <<>>
            ELSE (IF IsAlpha(str[k])
                  THEN LET v == UpperIndex[UpperOf(str[k])] + 9
                       IN <<DigitChars[(v \div 10) + 1], DigitChars[(v % 10) + 1]>>
                  ELSE <<str[k]>>) \o Conv(k + 1)
    IN Conv(1)

\* EU_IBANRecognizer._is_valid_checksum
IbanIsValidChecksum(iban) ==
    LET lit == IntLiteral(IbanNumeric(IbanRearranged(iban)))
    IN IF ~lit.ok THEN FALSE ELSE IntMod(lit, 97) = 1

(***************************************************************************)
(* The validators, each called on one string.                              *)
(***************************************************************************)

\* Card numbers: 411111111111111d, plain and with separators.
CardNumbers ==
    {<<"4", "1", "1", "1", "1", "1", "1", "1", "1", "1", "1", "1", "1", "1", "1">> \o <<d>> : d \in DigitSet}
    \cup {<<"4", "1", "1", "1", " ", "1", "1", "1", "1", " ", "1", "1", "1", "1", " ", "1", "1", "1">> \o <<d>> : d \in DigitSet}
    \cup {<<"4", "1", "1", "1", "-", "1", "1", "1", "1", "-", "1", "1", "1", "1", "-", "1", "1", "1">> \o <<d>> : d \in DigitSet}
    \cup {<<a, b, c, d, e>> : a, b, c, d, e \in {"0", "3", "5", "8"}}

\* Swedish numbers of ten and of twelve digits: (19)811218987d.
SwedenNumbers ==
    {<<"8", "1", "1", "2", "1", "8", "9", "8", "7">> \o <<d>> : d \in DigitSet} \cup {<<"1", "9", "8", "1", "1", "2", "1", "8", "9", "8", "7">> \o <<d>> : d \in DigitSet}

\* Dutch numbers: nine characters, the last two free.
NlNumbers == {<<"1", "1", "1", "2", "2", "2", "3">> \o <<a, b>> : a, b \in DigitSet \cup {"x"}}

\* Italian codes: RSSMRA85T10A56xy.
ItalyCodes ==
    {<<"R", "S", "S", "M", "R", "A", "8", "5", "T", "1", "0", "A", "5", "6">> \o <<x, y>> : x \in DigitSet \cup {"A", "a", "-"}, y \in UpperSet \cup {"s"}}

\* Spanish DNIs: 123456ab followed by a letter.
DniNumbers == {<<"1", "2", "3", "4", "5", "6">> \o <<a, b, c>> : a, b \in DigitSet, c \in UpperSet}

\* IBANs: GBcc WEST 1234 5698 7654 dd, without the spaces.
IbanNumbers ==
    {<<"G", "B", c1, c2>> \o <<"W", "E", "S", "T", "1", "2", "3", "4", "5", "6", "9", "8", "7", "6", "5", "4">> \o <<d1, d2>> : c1, c2, d1, d2 \in DigitSet}

InitChecksum ==
    \/ Called("AllCreditCardNumberRecognizer._is_valid_credit_card",
              ShortStrings \cup CardNumbers)
    \/ Called("CreditCardIssuerRecognizer.validate_result", ShortStrings \cup CardNumbers)
    \/ Called("SwedenNationalIDRecognizer._is_valid_checksum",
              ShortStrings \cup SwedenNumbers)
    \/ Called("NetherlandsNationalIDRecognizer._is_valid_checksum",
              ShortStrings \cup NlNumbers)
    \/ Called("ItalyFiscalCodeRecognizer._validate_checksum", ShortStrings \cup ItalyCodes)
    \/ Called("SpainDNIRecognizer._validate_dni_checksum", ShortStrings \cup DniNumbers)
    \/ Called("EU_IBANRecognizer._is_valid_checksum", ShortStrings \cup IbanNumbers)

AllCcValidate ==
    /\ Pending("AllCreditCardNumberRecognizer._is_valid_credit_card")
    /\ Finish(Return(AllCcIsValidCreditCard(input)))

IssuerValidate ==
    /\ Pending("CreditCardIssuerRecognizer.validate_result")
    /\ Finish(Return(IssuerValidateResult(input)))

SwedenValidate ==
    /\ Pending("SwedenNationalIDRecognizer._is_valid_checksum")
    /\ Finish(SwedenIsValidChecksum(input))

NlValidate ==
    /\ Pending("NetherlandsNationalIDRecognizer._is_valid_checksum")
    /\ Finish(NlIsValidChecksum(input))

ItalyValidate ==
    /\ Pending("ItalyFiscalCodeRecognizer._validate_checksum")
    /\ Finish(ItalyValidateChecksum(input))

SpainValidate ==
    /\ Pending("SpainDNIRecognizer._validate_dni_checksum")
    /\ Finish(SpainValidateDniChecksum(input))

IbanValidate ==
    /\ Pending("EU_IBANRecognizer._is_valid_checksum")
    /\ Finish(Return(IbanIsValidChecksum(input)))

NextChecksum ==
    \/ AllCcValidate
    \/ IssuerValidate
    \/ SwedenValidate
    \/ NlValidate
    \/ ItalyValidate
    \/ SpainValidate
    \/ IbanValidate

SpecChecksum == InitChecksum /\ [][NextChecksum]_vars

\* C6: every checksum validator is total: on every string (empty, too
\* short, lower-case, not alphanumeric) it returns a boolean and never
\* raises.
C6_ValidatorsNeverRaise ==
    (pc = "returned" /\ recognizer \in {"NetherlandsNationalIDRecognizer._is_valid_checksum",
                                         "ItalyFiscalCodeRecognizer._validate_checksum",
                                         "SpainDNIRecognizer._validate_dni_checksum"})
    => returned.raised = "none" /\ returned.value \in BOOLEAN

\* The Luhn sum as the claim words it: counting from the right, every second
\* digit, starting with the second-to-last, is doubled and reduced by 9
\* when above 9.
RECURSIVE LuhnSumFromRight(_, _)
LuhnSumFromRight(digits, k) ==
    IF k > Len(digits) THEN 0
    ELSE LET d == DigitValue(digits[Len(digits) + 1 - k])
             v == IF k % 2 = 0 THEN (IF 2 * d > 9 THEN 2 * d - 9 ELSE 2 * d) ELSE d
         IN v + LuhnSumFromRight(digits, k + 1)

WithoutSeparators(str) == SelectSeq(str, LAMBDA c : c \notin {" ", "-"})

\* C7: on every string that is a non-empty digit string once spaces and
\* hyphens are stripped, the credit-card validators return true exactly when
\* the Luhn sum is 0 modulo 10.
C7_LuhnValidation ==
    (/\ pc = "returned"
     /\ recognizer \in {"AllCreditCardNumberRecognizer._is_valid_credit_card",
                        "CreditCardIssuerRecognizer.validate_result"}
     /\ IsDigitString(WithoutSeparators(input)))
    => returned.value = (LuhnSumFromRight(WithoutSeparators(input), 1) % 10 = 0)

\* 4111 1111 1111 1111 passes _is_valid_credit_card.
C7_Witness ==
    /\ Returned("AllCreditCardNumberRecognizer._is_valid_credit_card")
    /\ input = <<"4", "1", "1", "1", " ", "1", "1", "1", "1", " ", "1", "1", "1", "1", " ", "1", "1", "1", "1">>
    /\ returned.value = TRUE

\* The string `str` with the character at position k replaced by c.
Replaced(str, k, c) == [str EXCEPT ![k] = c]

\* C8: the IBAN validator accepts GB82WEST12345698765432, and replacing any
\* single digit of an IBAN it accepts by another digit gives a string it
\* rejects.
C8_IbanSingleDigitChange ==
    Returned("EU_IBANRecognizer._is_valid_checksum")
    => /\ input = <<"G", "B", "8", "2", "W", "E", "S", "T", "1", "2", "3", "4", "5", "6", "9", "8", "7", "6", "5", "4", "3", "2">>
          => returned.value = TRUE
       /\ returned.value = TRUE
          => \A k \in 1..Len(input) : \A c \in DigitSet :
                 (IsDigit(input[k]) /\ c # input[k])
                 => ~IbanIsValidChecksum(Replaced(input, k, c))

\* The validator has accepted GB82WEST12345698765432.
C8_Witness ==
    /\ Returned("EU_IBANRecognizer._is_valid_checksum")
    /\ input = <<"G", "B", "8", "2", "W", "E", "S", "T", "1", "2", "3", "4", "5", "6", "9", "8", "7", "6", "5", "4", "3", "2">>
    /\ returned.value = TRUE

\* The check letters as the claim gives them.
C9_Letters == <<"T", "R", "W", "A", "G", "M", "Y", "F", "P", "D", "X", "B", "N", "J", "Z", "S", "Q", "V", "H", "L", "C", "K", "E">>

\* The number the digit string `digits` denotes.
RECURSIVE NumberOf(_, _)
NumberOf(digits, k) ==
    IF k = 0 THEN 0 ELSE NumberOf(digits, k - 1) * 10 + DigitValue(digits[k])

\* C9: for every 8-digit number n and trailing letter c, the DNI validator
\* returns true exactly when c is the letter at index n mod 23 of
\* TRWAGMYFPDXBNJZSQVHLCKE.
C9_DniMod23 ==
    (/\ Returned("SpainDNIRecognizer._validate_dni_checksum")
     /\ Len(input) = 9
     /\ IsDigitString(SubSeq(input, 1, 8))
     /\ IsUpper(input[9]))
    => /\ returned.raised = "none"
       /\ returned.value = (C9_Letters[(NumberOf(input, 8) % 23) + 1] = input[9])

\* 12345678Z is valid.
C9_Witness ==
    /\ Returned("SpainDNIRecognizer._validate_dni_checksum")
    /\ input = <<"1", "2", "3", "4", "5", "6", "7", "8", "Z">>
    /\ returned = Return(TRUE)

(***************************************************************************)
(* CCTrackDataRecognizer.analyze.  The text is given by the pattern        *)
(* matches in it, in text order and one space apart, and by the entities   *)
(* the NLP engine found.                                                   *)
(***************************************************************************)

\* The most pattern matches in a text, and the most NLP entities.
MaxTokens == 3
MaxEntities == 2

\* Matches of CREDIT_CARD_PATTERN (a Luhn-valid number and an invalid one)
\* and of EXPIRY_DATE_PATTERN (01/25, whose digits pass the Luhn check, and
\* 12/25, whose digits fail it).
CcnTokens == {<<"4", "1", "1", "1", "1", "1", "1", "1", "1", "1", "1", "1", "1", "1", "1", "1">>, <<"4", "1", "1", "1", "1", "1", "1", "1", "1", "1", "1", "1", "1", "1", "1", "2">>}
ExpiryTokens == {<<"0", "1", "/", "2", "5">>, <<"1", "2", "/", "2", "5">>}

TrackTexts == SeqsUpTo(CcnTokens \cup ExpiryTokens, MaxTokens)

NlpEntities ==
    SeqsUpTo({[label_ |-> "PERSON", start_char |-> 0, end_char |-> 3],
              [label_ |-> "PERSON", start_char |-> 5, end_char |-> 8],
              [label_ |-> "ORG", start_char |-> 0, end_char |-> 3]}, MaxEntities)

\* Where token k starts in the text.
RECURSIVE TokenStart(_, _)
TokenStart(tokens, k) ==
    IF k = 1 THEN 0 ELSE TokenStart(tokens, k - 1) + Len(tokens[k - 1]) + 1

\* super().analyze: the matches of one pattern, in text order, at the
\* pattern's score.
RECURSIVE TrackPatternResults(_, _, _, _)
TrackPatternResults(tokens, matched, score, k) ==
    IF k > Len(tokens) THEN <<>>
    ELSE (IF tokens[k] \in matched
          THEN << [entity_type |-> "CREDIT_CARD_TRACK_DATA",
                   start |-> TokenStart(tokens, k),
                   end |-> TokenStart(tokens, k) + Len(tokens[k]),
                   score |-> score] >>
          ELSE <<>>)
         \o TrackPatternResults(tokens, matched, score, k + 1)

\* The text under a result's span.
TrackMatchedText(tokens, result) ==
    LET k == CHOOSE j \in 1..Len(tokens) : TokenStart(tokens, j) = result.start
    IN tokens[k]

\* The results appended for the PERSON entities.
RECURSIVE PersonResults(_, _)
PersonResults(entities, k) ==
    IF k > Len(entities) THEN <<>>
    ELSE (IF entities[k].label_ = "PERSON"
          THEN << [entity_type |-> "PERSON", start |-> entities[k].start_char,
                   end |-> entities[k].end_char, score |-> 85000] >>
          ELSE <<>>)
         \o PersonResults(entities, k + 1)

\* validate_ccn
TrackValidateCcn(ccn) == LuhnChecksum(SelectSeq(ccn, IsDigit))

\* custom_validate_result
TrackCustomValidate(tokens, result) ==
    IF result.entity_type = "CREDIT_CARD_TRACK_DATA"
    THEN TrackValidateCcn(TrackMatchedText(tokens, result))
    ELSE TRUE

\* A quorum of two.
TrackQuorumOfTwo(track_data_count) == track_data_count >= 2

\* `track_data_count >= 3`
TrackQuorum(track_data_count) == track_data_count >= 3

TrackResults(tokens, entities) ==
    LET results == TrackPatternResults(tokens, CcnTokens, 85000, 1)
                   \o TrackPatternResults(tokens, ExpiryTokens, 80000, 1)
                   \o PersonResults(entities, 1)
        valid_results == SelectSeq(results, LAMBDA r : TrackCustomValidate(tokens, r))
        track_data_count ==
            Cardinality({k \in 1..Len(valid_results) :
                valid_results[k].entity_type \in {"CREDIT_CARD_TRACK_DATA", "PERSON"}})
    IN IF TrackQuorum(track_data_count) THEN valid_results ELSE <<>>

TrackAnalyze ==
    /\ Pending("CCTrackDataRecognizer.analyze")
    /\ Finish(Return(TrackResults(input.text, input.entities)))

InitTrack ==
    Called("CCTrackDataRecognizer.analyze", [text : TrackTexts, entities : NlpEntities])

NextTrack == TrackAnalyze

SpecTrack == InitTrack /\ [][NextTrack]_vars

\* The hits that survive validation: the pattern matches whose digits pass
\* the Luhn check, and the PERSON entities.
TrackHits ==
    Cardinality({k \in 1..Len(input.text) :
        LuhnSumFromRight(SelectSeq(input.text[k], IsDigit), 1) % 10 = 0})
    + Cardinality({k \in 1..Len(input.entities) : input.entities[k].label_ = "PERSON"})

\* C4: the track-data recognizer returns the empty list whenever fewer than
\* 3 hits survive validation, and a list it returns that is not empty holds
\* at least 3 results.
C4_TrackQuorum ==
    Returned("CCTrackDataRecognizer.analyze")
    => /\ TrackHits < 3 => returned.value = <<>>
       /\ returned.value # <<>> => Len(returned.value) >= 3

\* A valid card number, an expiry date and a person: three hits, returned.
C4_Witness ==
    /\ Returned("CCTrackDataRecognizer.analyze")
    /\ TrackHits = 3
    /\ \E k \in 1..Len(input.entities) : input.entities[k].label_ = "PERSON"
    /\ Len(returned.value) = 3

(***************************************************************************)
(* EU_IBANRecognizer.analyze on a text.  The pattern matcher is the base   *)
(* class's: it runs the recognizer's regex over the text and yields one    *)
(* result per match at the pattern's score.  Whether it compiles the regex *)
(* with IGNORECASE is the base class's choice, so both are inputs.         *)
(***************************************************************************)

IsWordChar(c) == IsAlpha(c) \/ IsDigit(c) \/ c = "_"

\* \b at offset pos of text: exactly one side is a word character.
WordBoundary(text, pos) ==
    LET before == pos >= 1 /\ IsWordChar(text[pos])
        after == pos < Len(text) /\ IsWordChar(text[pos + 1])
    IN before # after

\* [A-Z], and [A-Z0-9], under the flag.
MatchesLetter(c, ignorecase) == IsUpper(c) \/ (ignorecase /\ IsLower(c))
MatchesAlnum(c, ignorecase) == MatchesLetter(c, ignorecase) \/ IsDigit(c)

\* The characters at offsets pos .. pos+n-1 exist and all match [A-Z0-9].
AlnumRun(text, pos, n, ignorecase) ==
    /\ pos + n <= Len(text)
    /\ \A k \in 1..n : MatchesAlnum(text[pos + k], ignorecase)

\* (?:[A-Z0-9]{1,4}\s?){4,}\b from offset pos, `count` repetitions done,
\* as a backtracking matcher tries it: the longest run first, the optional
\* space taken first, another repetition before the closing \b.  The end
\* offset of the match, or -1.
RECURSIVE IbanGroups(_, _, _, _, _)
IbanGroups(text, pos, count, n, ignorecase) ==
    IF n = 0 THEN -1
    ELSE IF ~AlnumRun(text, pos, n, ignorecase)
    THEN IbanGroups(text, pos, count, n - 1, ignorecase)
    ELSE LET Rest(p) ==
                 LET more == IbanGroups(text, p, count + 1, 4, ignorecase)
                 IN IF more # -1 THEN more
                    ELSE IF count + 1 >= 4 /\ WordBoundary(text, p) THEN p
                    ELSE -1
             spaced == IF pos + n < Len(text) /\ IsSpace(text[pos + n + 1])
                       THEN Rest(pos + n + 1) ELSE -1
             tight == IF spaced # -1 THEN spaced ELSE Rest(pos + n)
         IN IF tight # -1 THEN tight
            ELSE IbanGroups(text, pos, count, n - 1, ignorecase)

\* \b[A-Z]{2}\d{2} at offset start.
IbanPrefix(text, start, ignorecase) ==
    /\ start + 4 <= Len(text)
    /\ WordBoundary(text, start)
    /\ MatchesLetter(text[start + 1], ignorecase)
    /\ MatchesLetter(text[start + 2], ignorecase)
    /\ IsDigit(text[start + 3])
    /\ IsDigit(text[start + 4])

\* The regex of PATTERNS[0] tried at offset start: the end offset, or -1.
IbanMatchAt(text, start, ignorecase) ==
    IF IbanPrefix(text, start, ignorecase)
    THEN IbanGroups(text, start + 4, 0, 4, ignorecase)
    ELSE -1

\* The pattern matcher: every match of the regex from left to right, none
\* overlapping, each a result at the pattern's score 0.5.
RECURSIVE IbanFindAll(_, _, _)
IbanFindAll(text, start, ignorecase) ==
    LET starts == {i \in start..Len(text) : IbanMatchAt(text, i, ignorecase) # -1}
        first == CHOOSE i \in starts : \A j \in starts : i <= j
        e == IbanMatchAt(text, first, ignorecase)
    IN IF starts = {} THEN <<>>
       ELSE << [entity_type |-> "EU_IBAN", start |-> first, end |-> e,
                score |-> 50000] >>
            \o IbanFindAll(text, e, ignorecase)

\* text[start:end]
Slice(text, start, end) == SubSeq(text, start + 1, end)

\* The loop body of analyze: the checksum of the matched text, spaces
\* removed, decides the score.
IbanRescore(text, result) ==
    LET cleaned_iban == SelectSeq(Slice(text, result.start, result.end),
                                  LAMBDA c : ~IsSpace(c))
    IN [result EXCEPT !.score = IF IbanIsValidChecksum(cleaned_iban) THEN ScoreOne ELSE 0]

IbanResults(text, ignorecase) ==
    LET results == IbanFindAll(text, 0, ignorecase)
    IN [k \in 1..Len(results) |-> IbanRescore(text, results[k])]

IbanAnalyze ==
    /\ Pending("EU_IBANRecognizer.analyze")
    /\ Finish(Return(IbanResults(input.text, input.ignorecase)))

\* GBcc WEST 1234 5698 7654 32 with each of its five inner spaces there or not.
IbanGroupsOf(cc) == << <<"G", "B">> \o cc, <<"W", "E", "S", "T">>, <<"1", "2", "3", "4">>, <<"5", "6", "9", "8">>, <<"7", "6", "5", "4">>, <<"3", "2">> >>

RECURSIVE IbanSpelled(_, _, _)
IbanSpelled(groups, spaces, k) ==
    IF k > Len(groups) THEN <<>>
    ELSE groups[k] \o (IF k \in spaces THEN <<" ">> ELSE <<>>)
         \o IbanSpelled(groups, spaces, k + 1)

IbanSentences ==
    {lead \o IbanSpelled(IbanGroupsOf(cc), spaces, 1) \o <<" ", "f", "o", "r", " ", "t", "h", "e", " ", "t", "r", "a", "n", "s", "f", "e", "r">> :
        lead \in {<<"H", "e", "r", " ", "I", "B", "A", "N", " ", "i", "s", " ">>, <<"H", "e", "r", " ", "c", "o", "d", "e", " ", "i", "s", " ">>},
        cc \in {<<"8", "2">>, <<"8", "3">>},
        spaces \in SUBSET (1..5)}

InitIban ==
    Called("EU_IBANRecognizer.analyze", [text : IbanSentences, ignorecase : BOOLEAN])

NextIban == IbanAnalyze

SpecIban == InitIban /\ [][NextIban]_vars

\* "Her IBAN is GB82 WEST 1234 5698 7654 32 for the transfer"
C10_Text ==
    <<"H", "e", "r", " ", "I", "B", "A", "N", " ", "i", "s", " ">> \o IbanSpelled(IbanGroupsOf(<<"8", "2">>), 1..5, 1) \o <<" ", "f", "o", "r", " ", "t", "h", "e", " ", "t", "r", "a", "n", "s", "f", "e", "r">>

\* C10: analysing that text yields exactly one result, EU_IBAN, spanning
\* exactly the IBAN substring (offsets 12 to 39), with score 1.0.
C10_IbanEndToEnd ==
    (Returned("EU_IBANRecognizer.analyze") /\ input.text = C10_Text)
    => returned.value = << [entity_type |-> "EU_IBAN", start |-> 12, end |-> 39,
                             score |-> ScoreOne] >>

(***************************************************************************)
(* analyze on a text.  The text is a string; the base class's pattern      *)
(* matcher finds the matches of each regex of the recognizer in it, and    *)
(* the recognizer's own analyze rescores them.                             *)
(***************************************************************************)

\* str.lower()
LowerOf(c) == IF IsUpper(c) THEN LowerChars[UpperIndex[c]] ELSE c
Lower(str) == [i \in 1..Len(str) |-> LowerOf(str[i])]

\* `needle in hay`
Contains(hay, needle) ==
    \E i \in 0..(Len(hay) - Len(needle)) : \A k \in 1..Len(needle) : hay[i + k] = needle[k]

\* n spaces.
Spaces(n) == [i \in 1..n |-> " "]

\* text[max(0, start - window):min(len(text), end + window)]
Window(text, start, end, window) ==
    SubSeq(text, Max(0, start - window) + 1, Min(Len(text), end + window))

\* The pattern matcher for one pattern: ends[i] is the end offset of the
\* regex's match at offset i, or -1; the matches are taken from left to
\* right, none overlapping, each a result at the pattern's score.
RECURSIVE FindIter(_, _, _, _)
FindIter(ends, entity, score, from) ==
    LET starts == {i \in DOMAIN ends : i >= from /\ ends[i] # -1}
        first == CHOOSE i \in starts : \A j \in starts : i <= j
    IN IF starts = {} THEN <<>>
       ELSE << [entity_type |-> entity, start |-> first, end |-> ends[first],
                score |-> score] >>
            \o FindIter(ends, entity, score, ends[first])

\* The characters at offsets pos .. pos+n-1 exist and are digits.
DigitRun(text, pos, n) ==
    /\ pos + n <= Len(text)
    /\ \A k \in 1..n : IsDigit(text[pos + k])

(* SpainDNIRecognizer.analyze *)

\* CONTEXT
SpainContext ==
    << <<"D", "N", "I">>,
       <<"D", "o", "c", "u", "m", "e", "n", "t", "o", " ", "N", "a", "c", "i", "o", "n", "a", "l", " ", "d", "e", " ", "I", "d", "e", "n", "t", "i", "d", "a", "d">>,
       <<"n", "a", "t", "i", "o", "n", "a", "l", " ", "I", "D">>,
       <<"i", "d", "e", "n", "t", "i", "f", "i", "c", "a", "c", "i", "ó", "n", " ", "n", "a", "c", "i", "o", "n", "a", "l">>,
       <<"n", "ú", "m", "e", "r", "o", " ", "d", "e", " ", "i", "d", "e", "n", "t", "i", "f", "i", "c", "a", "c", "i", "ó", "n">>,
       <<"i", "d", "e", "n", "t", "i", "f", "i", "c", "a", "t", "i", "o", "n", " ", "n", "u", "m", "b", "e", "r">>,
       <<"n", "a", "t", "i", "o", "n", "a", "l", " ", "i", "d", "e", "n", "t", "i", "f", "i", "c", "a", "t", "i", "o", "n">> >>

\* [A-HJ-NP-TV-Z], under the flag.
DniCheckLetter(c, ignorecase) ==
    LET u == IF ignorecase THEN UpperOf(c) ELSE c
    IN IsUpper(u) /\ u \notin {"I", "O", "U"}

\* \b\d{8}[A-HJ-NP-TV-Z]\b at offset start: the end offset, or -1.
DniMatchAt(text, start, ignorecase) ==
    IF /\ start + 9 <= Len(text)
       /\ WordBoundary(text, start)
       /\ DigitRun(text, start, 8)
       /\ DniCheckLetter(text[start + 9], ignorecase)
       /\ WordBoundary(text, start + 9)
    THEN start + 9
    ELSE -1

\* _adjust_score_based_on_context: the keywords are looked for in the whole
\* text.
SpainAdjustScore(text, result) ==
    IF \E k \in 1..Len(SpainContext) : Contains(Lower(text), Lower(SpainContext[k]))
    THEN Min(result.score + 30000, ScoreOne)
    ELSE result.score

\* The loop body of analyze.  A match is nine characters, so dni[-1]
\* exists and the validator returns.
SpainRescore(text, result) ==
    LET dni == Slice(text, result.start, result.end)
    IN [result EXCEPT !.score = IF SpainValidateDniChecksum(dni) = Return(TRUE)
                                 THEN SpainAdjustScore(text, result)
                                 ELSE 0]

SpainResults(text, ignorecase) ==
    LET results == FindIter([i \in 0..Len(text) |-> DniMatchAt(text, i, ignorecase)],
                            "SPAIN_DNI", 70000, 0)
    IN [k \in 1..Len(results) |-> SpainRescore(text, results[k])]

SpainAnalyze ==
    /\ Pending("SpainDNIRecognizer.analyze")
    /\ Finish(Return(SpainResults(input.text, input.ignorecase)))

(* NetherlandsVATRecognizer.analyze *)

\* CONTEXT_KEYWORDS
NlVatContext ==
    << <<"b", "t", "w">>,
       <<"v", "a", "t", " ", "n", "u", "m", "b", "e", "r">>,
       <<"v", "a", "t", " ", "i", "d">>,
       <<"N", "e", "t", "h", "e", "r", "l", "a", "n", "d", "s", " ", "V", "A", "T">>,
       <<"B", "T", "W", "-", "n", "u", "m", "m", "e", "r">>,
       <<"b", "t", "w", "-", "i", "d">>,
       <<"b", "t", "w", " ", "n", "u", "m", "m", "e", "r">>,
       <<"b", "t", "w", " ", "i", "d", "e", "n", "t", "i", "f", "i", "c", "a", "t", "i", "e", "n", "u", "m", "m", "e", "r">> >>

\* \b\d{9}B\d{2}\b at offset start: the end offset, or -1.
NlVatMatchAt(text, start, ignorecase) ==
    IF /\ start + 12 <= Len(text)
       /\ WordBoundary(text, start)
       /\ DigitRun(text, start, 9)
       /\ (text[start + 10] = "B" \/ (ignorecase /\ text[start + 10] = "b"))
       /\ DigitRun(text, start + 10, 2)
       /\ WordBoundary(text, start + 12)
    THEN start + 12
    ELSE -1

\* validate_checksum: fourteen characters with "B" at index 9, and the
\* first nine digits weighted 9..1 sum to 0 modulo 11.
NlVatValidateChecksum(vat_number) ==
    LET digits == SubSeq(vat_number, 1, 9)
        RECURSIVE Sum(_, _)
        Sum(index, total_sum) ==
            IF index > 8 THEN total_sum
            ELSE Sum(index + 1, total_sum + DigitValue(digits[index + 1]) * (9 - index))
    IN IF Len(vat_number) # 14 \/ vat_number[10] # "B" THEN FALSE
       ELSE IF ~IsDigitString(digits) THEN FALSE
       ELSE Sum(0, 0) % 11 = 0

\* enhance_confidence on a text: the keywords are looked for within 50
\* characters of the match.
NlVatContextPresent(text, result) ==
    LET surrounding_text == Lower(Window(text, result.start, result.end, 50))
    IN \E k \in 1..Len(NlVatContext) : Contains(surrounding_text, Lower(NlVatContext[k]))

\* The loop body of analyze.
NlVatRescore(text, result) ==
    LET vat_number == Slice(text, result.start, result.end)
    IN [result EXCEPT !.score = IF NlVatValidateChecksum(vat_number)
                                 THEN (IF NlVatContextPresent(text, result) THEN 90000 ELSE 50000)
                                 ELSE 0]

NlVatResults(text, ignorecase) ==
    LET results == FindIter([i \in 0..Len(text) |-> NlVatMatchAt(text, i, ignorecase)],
                            "NETHERLANDS_VAT_NUMBER", 50000, 0)
    IN [k \in 1..Len(results) |-> NlVatRescore(text, results[k])]

NlVatAnalyze ==
    /\ Pending("NetherlandsVATRecognizer.analyze")
    /\ Finish(Return(NlVatResults(input.text, input.ignorecase)))

(* The texts: a lead, a gap of spaces, a candidate, a tail. *)

\* The widths of the gap between the lead and the candidate.
GapWidths == {1, 51}

TextsOf(leads, tokens, tails) ==
    {lead \o Spaces(g) \o token \o tail :
        lead \in leads, g \in GapWidths, token \in tokens, tail \in tails}

SpainSentences ==
    TextsOf({<<>>, <<"D", "N", "I">>, <<"d", "n", "i">>, <<"i", "d">>},
            {<<"1", "2", "3", "4", "5", "6", "7", "8", "Z">>, <<"1", "2", "3", "4", "5", "6", "7", "8", "A">>, <<"1", "2", "3", "4", "5", "6", "7", "8", "z">>, <<"1", "2", "3", "4", "5", "6", "7", "Z">>, <<"0", "0", "0", "0", "0", "0", "0", "0", "T", " ", "1", "2", "3", "4", "5", "6", "7", "8", "A">>},
            {<<>>, <<" ", "o", "k">>, <<" ", "N", "a", "t", "i", "o", "n", "a", "l", " ", "I", "D">>})

NlVatSentences ==
    TextsOf({<<>>, <<"B", "T", "W">>, <<"b", "t", "w", "-", "i", "d">>, <<"i", "d">>},
            {<<"1", "1", "1", "2", "2", "2", "3", "3", "8", "B", "0", "1">>, <<"1", "2", "3", "4", "5", "6", "7", "8", "0", "B", "0", "1">>, <<"1", "1", "1", "2", "2", "2", "3", "3", "8", "b", "0", "1">>, <<"1", "1", "1", "2", "2", "2", "3", "3", "8", "B", "0", "1", "2", "3">>, <<"1", "1", "1", "2", "2", "2", "3", "3", "B", "0", "1">>},
            {<<>>, <<" ", "o", "k">>, <<" ", "V", "A", "T", " ", "I", "D">>})

InitZero ==
    \/ Called("EU_IBANRecognizer.analyze", [text : IbanSentences, ignorecase : BOOLEAN])
    \/ Called("SpainDNIRecognizer.analyze", [text : SpainSentences, ignorecase : BOOLEAN])
    \/ Called("NetherlandsVATRecognizer.analyze", [text : NlVatSentences, ignorecase : BOOLEAN])

NextZero ==
    \/ IbanAnalyze
    \/ SpainAnalyze
    \/ NlVatAnalyze

SpecZero == InitZero /\ [][NextZero]_vars

\* C11: no result with score 0 is in the list a recognizer's analyze
\* returns: every returned result has a score above 0.
C11_NoZeroScoreEmitted ==
    (pc = "returned" /\ recognizer \in {"EU_IBANRecognizer.analyze",
                                         "SpainDNIRecognizer.analyze",
                                         "NetherlandsVATRecognizer.analyze"})
    => \A k \in 1..Len(returned.value) : returned.value[k].score > 0

(* NetherlandsDriversLicenseRecognizer.analyze *)

\* CONTEXT
NlDlContext ==
    << <<"r", "i", "j", "b", "e", "w", "i", "j", "s">>,
       <<"d", "r", "i", "v", "e", "r", "'", "s", " ", "l", "i", "c", "e", "n", "s", "e">>,
       <<"l", "i", "c", "e", "n", "t", "i", "e", "n", "u", "m", "m", "e", "r">>,
       <<"l", "i", "c", "e", "n", "s", "e", " ", "n", "u", "m", "b", "e", "r">>,
       <<"d", "r", "i", "v", "e", "r", "s", " ", "l", "i", "c", "e", "n", "s", "e">>,
       <<"n", "u", "m", "m", "e", "r", " ", "r", "i", "j", "b", "e", "w", "i", "j", "s">> >>

\* \b\d{10}\b at offset start: the end offset, or -1.
NlDlMatchAt(text, start) ==
    IF /\ start + 10 <= Len(text)
       /\ WordBoundary(text, start)
       /\ DigitRun(text, start, 10)
       /\ WordBoundary(text, start + 10)
    THEN start + 10
    ELSE -1

\* `any(keyword in text.lower() for keyword in self.CONTEXT)`
NlDlHasContext(text) ==
    \E k \in 1..Len(NlDlContext) : Contains(Lower(text), NlDlContext[k])

\* A method that ends without reaching a return statement: the caller gets
\* None, no list.
ReturnNone == [raised |-> "none"]

\* analyze: `return results` stands inside the loop body, so the method
\* returns after the first result, and with no result it never reaches it.
NlDlOutcome(text) ==
    LET results == FindIter([i \in 0..Len(text) |-> NlDlMatchAt(text, i)],
                            "NETHERLANDS_DRIVERS_LICENSE", 70000, 0)
    IN IF results = <<>> THEN ReturnNone
       ELSE Return([results EXCEPT ![1].score = IF NlDlHasContext(text) THEN ScoreOne ELSE @])

NlDlAnalyze ==
    /\ Pending("NetherlandsDriversLicenseRecognizer.analyze")
    /\ Finish(NlDlOutcome(input.text))

NlDlSentences ==
    {<<>>} \cup
    TextsOf({<<>>, <<"r", "i", "j", "b", "e", "w", "i", "j", "s">>, <<"R", "i", "j", "b", "e", "w", "i", "j", "s">>, <<"i", "d">>},
            {<<>>, <<"1", "2", "3", "4", "5", "6", "7", "8", "9", "0">>, <<"1", "2", "3", "4", "5", "6", "7", "8", "9">>, <<"1", "2", "3", "4", "5", "6", "7", "8", "9", "0", " ", "0", "9", "8", "7", "6", "5", "4", "3", "2", "1">>, <<"1", "2", "3", "4", "5", "6", "7", "8", "9", "0", "1">>},
            {<<>>, <<" ", "o", "k">>, <<" ", "L", "i", "c", "e", "n", "s", "e", " ", "N", "u", "m", "b", "e", "r">>})

InitNoMatch ==
    Called("NetherlandsDriversLicenseRecognizer.analyze", [text : NlDlSentences])

NextNoMatch == NlDlAnalyze

SpecNoMatch == InitNoMatch /\ [][NextNoMatch]_vars

\* The outcome is a returned list.
IsList(out) == "value" \in DOMAIN out /\ out.raised = "none"

\* C12: for every text, the empty text and the texts without a match
\* included, analyze returns a list, the empty list when nothing matches;
\* it never raises and never returns anything that is no list.
C12_NoMatchReturnsEmptyList ==
    Returned("NetherlandsDriversLicenseRecognizer.analyze")
    => /\ IsList(returned)
       /\ (\A i \in 0..Len(input.text) : NlDlMatchAt(input.text, i) = -1)
          => returned.value = <<>>

(***************************************************************************)
(* Construction of the recognizers whose patterns are loaded from the      *)
(* ICD-9 and ICD-10 code lists.  A code list is given by whether the file  *)
(* can be read and by its rows; a description cell may be empty (pandas    *)
(* reads it as NaN, a float).                                              *)
(***************************************************************************)

\* The most rows in a code list.
MaxRows == 2

IcdCodes == {"0010", "A000"}

\* The rows of the ICD-10 sheet, and the sheet.
Icd10Rows == [code : IcdCodes, short : {"text", "NaN"}, long : {"text", "NaN"}]
Icd10Sheets == [file : {"ok", "missing"}, rows : SeqsUpTo(Icd10Rows, MaxRows)]

\* The ICD-9 sheet: only the CODE column is read.
Icd9Sheets == [file : {"ok", "missing"}, rows : SeqsUpTo(IcdCodes, MaxRows)]

Pattern(name, of, score) == [name |-> name, of |-> of, score |-> score]

\* The loop of load_icd10_data: re.escape of a NaN raises TypeError, after
\* the patterns before it were appended; the loop ends there.
RECURSIVE Icd10Appended(_, _)
Icd10Appended(rows, k) ==
    IF k > Len(rows) THEN <<>>
    ELSE LET code == Pattern("ICD-10 Code", rows[k].code, ScoreOne)
             short == Pattern("ICD-10 Short Desc", rows[k].code, 70000)
             long == Pattern("ICD-10 Long Desc", rows[k].code, 70000)
         IN IF rows[k].short = "NaN" THEN <<code>>
            ELSE IF rows[k].long = "NaN" THEN <<code, short>>
            ELSE <<code, short, long>> \o Icd10Appended(rows, k + 1)

\* load_icd10_data: every exception is caught and printed, and the patterns
\* gathered so far are returned.
LoadIcd10Data(sheet) ==
    IF sheet.file # "ok" THEN <<>> ELSE Icd10Appended(sheet.rows, 1)

\* load_icd9_data: every exception is caught and printed, and the empty
\* list is returned.
LoadIcd9Data(sheet) ==
    IF sheet.file # "ok" THEN <<>>
    ELSE [k \in 1..Len(sheet.rows) |-> Pattern("ICD-9 Code", sheet.rows[k], 90000)]

\* ICD10Recognizer.__init__
Icd10Init ==
    /\ Pending("ICD10Recognizer.__init__")
    /\ Finish(Return([supported_entity |-> "ICD10_CODE",
                      patterns |-> LoadIcd10Data(input)]))

\* ICD9Recognizer.__init__
Icd9Init ==
    /\ Pending("ICD9Recognizer.__init__")
    /\ Finish(Return([supported_entity |-> "ICD9_CODE",
                      patterns |-> LoadIcd9Data(input)]))

(* LowThresholdHIPAARecognizer *)

\* The three patterns _load_patterns starts from.
LtBasePatterns ==
    << Pattern("6-digit or greater number", "regex", 40000),
       Pattern("Unformatted SSN", "regex", 90000),
       Pattern("US Date Format (dd/mm/yyyy)", "regex", 70000) >>

\* The CSV files of the low-threshold recognizer: every cell goes through
\* str(), so only reading the file can fail.
LtSheets == [file : {"ok", "missing"}, rows : SeqsUpTo(IcdCodes, MaxRows)]

\* LowThresholdHIPAARecognizer.load_icd9_data and load_icd10_data: what the
\* future holds, a list or the exception pd.read_csv raised.
LtLoadIcd9Data(sheet) ==
    IF sheet.file # "ok" THEN Raise("FileNotFoundError")
    ELSE Return([k \in 1..Len(sheet.rows) |-> Pattern("ICD-9 Code", sheet.rows[k], 80000)])

LtLoadIcd10Data(sheet) ==
    IF sheet.file # "ok" THEN Raise("FileNotFoundError")
    ELSE Return([k \in 1..Len(sheet.rows) |-> Pattern("ICD-10 Code", sheet.rows[k], 80000)])

\* `patterns.extend(result)` for one future; an exception of the future is
\* caught and printed.
LtExtend(patterns, future) ==
    IF future.raised # "none" THEN patterns ELSE patterns \o future.value

\* _load_patterns: the two futures are taken in the order they complete.
LtLoadPatterns(icd9, icd10, icd9_first) ==
    LET f9 == LtLoadIcd9Data(icd9)
        f10 == LtLoadIcd10Data(icd10)
    IN IF icd9_first
       THEN LtExtend(LtExtend(LtBasePatterns, f9), f10)
       ELSE LtExtend(LtExtend(LtBasePatterns, f10), f9)

\* LowThresholdHIPAARecognizer.__init__ with patterns = None.
LtInit ==
    /\ Pending("LowThresholdHIPAARecognizer.__init__")
    /\ \E icd9_first \in BOOLEAN :
         Finish(Return([supported_entity |-> "LOW_THRESHOLD_HIPAA",
                        patterns |-> LtLoadPatterns(input.icd9, input.icd10, icd9_first)]))

InitConfig ==
    \/ Called("ICD10Recognizer.__init__", Icd10Sheets)
    \/ Called("ICD9Recognizer.__init__", Icd9Sheets)
    \/ Called("LowThresholdHIPAARecognizer.__init__", [icd9 : LtSheets, icd10 : LtSheets])

NextConfig ==
    \/ Icd10Init
    \/ Icd9Init
    \/ LtInit

SpecConfig == InitConfig /\ [][NextConfig]_vars

\* Loading the pattern data of the call fails: a file cannot be read, or a
\* description cell of the ICD-10 sheet is no string.
LoadFails ==
    IF recognizer = "LowThresholdHIPAARecognizer.__init__"
    THEN input.icd9.file # "ok" \/ input.icd10.file # "ok"
    ELSE \/ input.file # "ok"
         \/ /\ recognizer = "ICD10Recognizer.__init__"
            /\ \E k \in 1..Len(input.rows) : "NaN" \in {input.rows[k].short, input.rows[k].long}

\* C13: when loading a recognizer's pattern data fails, its construction
\* fails with an error; it never completes with an empty or partial pattern
\* list.
C13_LoadFailureIsFatal ==
    (pc = "returned" /\ recognizer \in {"ICD10Recognizer.__init__", "ICD9Recognizer.__init__",
                                         "LowThresholdHIPAARecognizer.__init__"}
     /\ LoadFails)
    => returned.raised # "none"

(***************************************************************************)
(* The rescoring stage and the candidates it is given.                     *)
(***************************************************************************)

(* GermanVATRecognizer.analyze *)

\* Per span: _has_context of the 300-character window.
GermanVatTexts == [has_context : [ScoredSpans -> BOOLEAN]]

\* _validate_checksum: a placeholder that accepts every number.
GermanVatValidateChecksum(vat_number) == TRUE

\* A rescoring that also moves the result's start to the start of the
\* context window.
GermanVatRescoreWindow(text, result) ==
    [result EXCEPT !.score = IF text.has_context[SpanOf(result)]
                             THEN Min(result.score + 15000, ScoreOne)
                             ELSE Times(result.score, 5, 10),
                   !.start = Max(0, result.start - 300)]

\* The loop body of analyze.
GermanVatRescore(text, result) ==
    [result EXCEPT !.score = IF /\ text.has_context[SpanOf(result)]
                                /\ GermanVatValidateChecksum(SpanOf(result))
                             THEN Min(result.score + 15000, ScoreOne)
                             ELSE Times(result.score, 5, 10)]

GermanVatAnalyze ==
    /\ Pending("GermanVATRecognizer.analyze")
    /\ Finish(Return([k \in 1..Len(input.results) |->
                         GermanVatRescore(input.text, input.results[k])]))

(* USDriversLicenseRecognizer.analyze *)

\* Per span: a keyword, and a state name, within 50 characters.
UsDlTexts == [keyword_present : [ScoredSpans -> BOOLEAN], state_present : [ScoredSpans -> BOOLEAN]]

UsDlAnalyze ==
    /\ Pending("USDriversLicenseRecognizer.analyze")
    /\ Finish(Return([k \in 1..Len(input.results) |->
                         [input.results[k] EXCEPT
                             !.score = UsDlConfidence(
                                 input.text.keyword_present[SpanOf(input.results[k])],
                                 input.text.state_present[SpanOf(input.results[k])])]]))

InitFrame ==
    \/ Called("GermanVATRecognizer.analyze",
              [text : GermanVatTexts,
               results : SeqsUpTo(BaseResults("DE_Germany_VAT_Number"), MaxScored)])
    \/ Called("USDriversLicenseRecognizer.analyze",
              [text : UsDlTexts, results : SeqsUpTo(BaseResults("US_DRIVERS_LICENSE"), MaxScored)])
    \/ Called("AustraliaBankAccountRecognizer.analyze",
              [text : AustraliaTexts,
               results : SeqsUpTo(BaseResults("AUSTRALIA_BANK_ACCOUNT"), MaxScored)])

NextFrame ==
    \/ GermanVatAnalyze
    \/ UsDlAnalyze
    \/ AustraliaAnalyze

SpecFrame == InitFrame /\ [][NextFrame]_vars

\* A result without its score.
Unscored(result) ==
    [entity_type |-> result.entity_type, start |-> result.start, end |-> result.end]

\* The results of `kept` are results of `candidates`, in their order, score
\* aside: kept[i..] is found in candidates[j..].
RECURSIVE KeptFrom(_, _, _, _)
KeptFrom(kept, i, candidates, j) ==
    IF i > Len(kept) THEN TRUE
    ELSE IF j > Len(candidates) THEN FALSE
    ELSE IF Unscored(kept[i]) = Unscored(candidates[j])
         THEN KeptFrom(kept, i + 1, candidates, j + 1)
         ELSE KeptFrom(kept, i, candidates, j + 1)

\* C14: the rescoring stage changes only the score: every result analyze
\* returns has the start, end and entity type of a candidate the pattern
\* matcher produced, in the matcher's order.
C14_OnlyScoreChanges ==
    (pc = "returned" /\ recognizer \in {"GermanVATRecognizer.analyze",
                                         "USDriversLicenseRecognizer.analyze",
                                         "AustraliaBankAccountRecognizer.analyze"})
    => KeptFrom(returned.value, 1, input.results, 1)

\* German VAT: a candidate at 0.85 over (5, 8) with context comes back at
\* 1.0 over (5, 8).
C14_Witness ==
    /\ Returned("GermanVATRecognizer.analyze")
    /\ Len(input.results) = 1
    /\ input.results[1].score = 85000
    /\ SpanOf(input.results[1]) = <<5, 8>>
    /\ input.text.has_context[<<5, 8>>]
    /\ returned.value[1].score = ScoreOne
    /\ SpanOf(returned.value[1]) = <<5, 8>>

(***************************************************************************)
(* FranceDriversLicenceRecognizer.  The class has no analyze of its own:   *)
(* its results are the pattern matcher's, pattern by pattern.              *)
(***************************************************************************)

\* The end of the longest run of digits from offset pos.
RECURSIVE DigitsEnd(_, _)
DigitsEnd(text, pos) ==
    IF pos < Len(text) /\ IsDigit(text[pos + 1]) THEN DigitsEnd(text, pos + 1) ELSE pos

\* \b(?=[0-9]*[A-Za-z])[0-9]*[A-Za-z][0-9]*\b at offset start: digits, one
\* letter, digits, between two word boundaries.  The end offset, or -1.
FrLetterMatchAt(text, start) ==
    LET letter == DigitsEnd(text, start)
        end == DigitsEnd(text, letter + 1)
    IN IF /\ WordBoundary(text, start)
          /\ letter < Len(text)
          /\ IsAlpha(text[letter + 1])
          /\ WordBoundary(text, end)
       THEN end
       ELSE -1

\* (0[1-9]|1[0-2]) on two characters.
FrMonth(a, b) ==
    \/ a = "0" /\ IsDigit(b) /\ b # "0"
    \/ a = "1" /\ b \in {"0", "1", "2"}

\* (0[1-9]|[1-9][0-9]|2[1-9]|2[AaBb]) on two characters.
FrDepartment(a, b) ==
    \/ a = "0" /\ IsDigit(b) /\ b # "0"
    \/ IsDigit(a) /\ a # "0" /\ IsDigit(b)
    \/ a = "2" /\ b \in {"A", "a", "B", "b"}

\* \b([0-9]{2})(0[1-9]|1[0-2])(0[1-9]|[1-9][0-9]|2[1-9]|2[AaBb])(?!20)([0-9]{6})\b
\* at offset start: the end offset, or -1.
FrNumberMatchAt(text, start) ==
    IF /\ start + 12 <= Len(text)
       /\ WordBoundary(text, start)
       /\ DigitRun(text, start, 2)
       /\ FrMonth(text[start + 3], text[start + 4])
       /\ FrDepartment(text[start + 5], text[start + 6])
       /\ ~(text[start + 7] = "2" /\ text[start + 8] = "0")
       /\ DigitRun(text, start + 6, 6)
       /\ WordBoundary(text, start + 12)
    THEN start + 12
    ELSE -1

\* The matches of PATTERNS[0] at 0.3, then those of PATTERNS[1] at 1.0.
FrResults(text) ==
    FindIter([i \in 0..Len(text) |-> FrLetterMatchAt(text, i)],
             "FRANCE_DRIVERS_LICENSE", 30000, 0)
    \o FindIter([i \in 0..Len(text) |-> FrNumberMatchAt(text, i)],
                "FRANCE_DRIVERS_LICENSE", ScoreOne, 0)

\* The text of a call: a lead, the candidate token, a tail.
FrText(in) == in.lead \o in.token \o in.tail

FrAnalyze ==
    /\ Pending("FranceDriversLicenceRecognizer.analyze")
    /\ Finish(Return(FrResults(FrText(input))))

FrLeads ==
    {<<"P", "e", "r", "m", "i", "s", " ", "d", "e", " ", "C", "o", "n", "d", "u", "i", "r", "e", ":", " ">>, <<"M", "y", " ", "F", "r", "e", "n", "c", "h", " ", "d", "r", "i", "v", "e", "r", "'", "s", " ", "l", "i", "c", "e", "n", "s", "e", " ", "n", "u", "m", "b", "e", "r", " ", "i", "s", " ">>, <<>>, <<"T", "h", "i", "s", " ", "i", "s", " ", "n", "o", "t", " ", "a", " ", "v", "a", "l", "i", "d", " ", "l", "i", "c", "e", "n", "s", "e", " ", "n", "u", "m", "b", "e", "r", ":", " ">>, <<"A", "n", "o", "t", "h", "e", "r", " ", "i", "n", "v", "a", "l", "i", "d", " ", "e", "x", "a", "m", "p", "l", "e", ":", " ">>, <<"n", "u", "m", "e", "r", "o", " ">>}

FrTokens ==
    {<<"1", "2", "3", "4", "5", "6", "7", "8", "9", "0", "1", "2">>, <<"1", "2", "3", "4", "A", "5", "6", "7", "8", "9", "0", "1">>, <<"1", "2", "3", "4", "5", "6", "7", "8", "9", "A">>, <<"1", "2", "0", "1", "7", "5", "1", "2", "3", "4", "5", "6">>, <<"1", "2", "0", "1", "7", "5", "1", "2", "3", "4", "5">>, <<"1", "2", "0", "1", "2", "0", "1", "2", "3", "4", "5", "6", "7">>, <<"1", "2", "0", "1", "2", "A", "1", "2", "3", "4", "5", "6">>, <<"1", "2", "1", "3", "7", "5", "1", "2", "3", "4", "5", "6">>, <<"1", "2", "0", "1", "2", "0", "1", "2", "3", "4", "5", "6">>}

FrTails ==
    {<<>>, <<" ", "i", "s", " ", "a", " ", "s", "a", "m", "p", "l", "e", " ", "F", "r", "e", "n", "c", "h", " ", "d", "r", "i", "v", "e", "r", "'", "s", " ", "l", "i", "c", "e", "n", "s", "e", " ", "n", "u", "m", "b", "e", "r", ".">>, <<".">>}

InitFrance ==
    Called("FranceDriversLicenceRecognizer.analyze",
           [lead : FrLeads, token : FrTokens, tail : FrTails])

NextFrance == FrAnalyze

SpecFrance == InitFrance /\ [][NextFrance]_vars

\* C15: a text with a standalone 12-digit number gives exactly one result,
\* over exactly the 12 digits, with a score above 0.8; a text whose only
\* candidate token has a letter among its digits gives no result.
C15_FrenchLicence ==
    Returned("FranceDriversLicenceRecognizer.analyze")
    => /\ (DigitRun(input.token, 0, 12) /\ Len(input.token) = 12)
          => /\ Len(returned.value) = 1
             /\ returned.value[1].start = Len(input.lead)
             /\ returned.value[1].end = Len(input.lead) + 12
             /\ returned.value[1].score > 80000
       /\ (\E k \in 1..Len(input.token) : IsAlpha(input.token[k]))
          => returned.value = <<>>

(***************************************************************************)
(* The overlap filter, one candidate at a time: what the last candidate    *)
(* of a list does to the results kept from the candidates before it.       *)
(***************************************************************************)

\* The candidates before the last one, and the last one.
Earlier(list) == SubSeq(list, 1, Len(list) - 1)
Newest(list) == list[Len(list)]

\* The spans [start, end) of a and b have an offset in common.
Intersect(a, b) == a.start < b.end /\ b.start < a.end

NzContext ==
    << <<"h", "e", "a", "l", "t", "h", " ", "n", "u", "m", "b", "e", "r">>,
       <<"n", "h", "i", " ", "n", "u", "m", "b", "e", "r">>,
       <<"n", "h", "i">>,
       <<"m", "i", "n", "i", "s", "t", "r", "y", " ", "o", "f", " ", "h", "e", "a", "l", "t", "h">>,
       <<"n", "e", "w", " ", "z", "e", "a", "l", "a", "n", "d", " ", "h", "e", "a", "l", "t", "h", " ", "n", "u", "m", "b", "e", "r">>,
       <<"n", "z", " ", "h", "e", "a", "l", "t", "h", " ", "n", "u", "m", "b", "e", "r">>,
       <<"h", "e", "a", "l", "t", "h", " ", "i", "d">>,
       <<"m", "e", "d", "i", "c", "a", "l", " ", "n", "u", "m", "b", "e", "r">>,
       <<"m", "e", "d", "i", "c", "a", "l", " ", "r", "e", "c", "o", "r", "d">>,
       <<"h", "e", "a", "l", "t", "h", " ", "s", "y", "s", "t", "e", "m">>,
       <<"n", "a", "t", "i", "o", "n", "a", "l", " ", "h", "e", "a", "l", "t", "h", " ", "i", "d", "e", "n", "t", "i", "f", "i", "e", "r">> >>

\* [A-HJ-NP-Z], under the flag.
NzLetter(c, ignorecase) ==
    LET u == IF ignorecase THEN UpperOf(c) ELSE c
    IN IsUpper(u) /\ u \notin {"I", "O"}

\* The characters at offsets pos .. pos+n-1 exist and are of [A-HJ-NP-Z].
NzLetterRun(text, pos, n, ignorecase) ==
    /\ pos + n <= Len(text)
    /\ \A k \in 1..n : NzLetter(text[pos + k], ignorecase)

\* \b[A-HJ-NP-Z]{3}\d{4}\b at offset start: the end offset, or -1.
NzOldMatchAt(text, start, ignorecase) ==
    IF /\ start + 7 <= Len(text)
       /\ WordBoundary(text, start)
       /\ NzLetterRun(text, start, 3, ignorecase)
       /\ DigitRun(text, start + 3, 4)
       /\ WordBoundary(text, start + 7)
    THEN start + 7
    ELSE -1

\* \b[A-HJ-NP-Z]{3}\d{2}[A-HJ-NP-Z]\d\b at offset start: the end offset,
\* or -1.
NzNewMatchAt(text, start, ignorecase) ==
    IF /\ start + 7 <= Len(text)
       /\ WordBoundary(text, start)
       /\ NzLetterRun(text, start, 3, ignorecase)
       /\ DigitRun(text, start + 3, 2)
       /\ NzLetterRun(text, start + 5, 1, ignorecase)
       /\ DigitRun(text, start + 6, 1)
       /\ WordBoundary(text, start + 7)
    THEN start + 7
    ELSE -1

\* weights
NzWeights == <<7, 6, 5, 4, 3, 2>>

\* The keys of letters_to_digits: the capitals but I and O.
NzIsKey(c) == IsUpper(c) /\ c \notin {"I", "O"}

\* letters_to_digits[char]: ord(char) - 55, so "A" is 10 and "Z" is 35.
NzLetterValue(c) == UpperIndex[c] + 9

\* The list `digits` of a 7-character number: the first three characters
\* through letters_to_digits, the last four through int().  <<>> stands
\* for the KeyError or ValueError of a character that has no value.
NzDigitsOld(number) ==
    IF /\ \A k \in 1..3 : NzIsKey(UpperOf(number[k]))
       /\ \A k \in 4..7 : IsDigit(number[k])
    THEN [k \in 1..7 |-> IF k <= 3 THEN NzLetterValue(UpperOf(number[k]))
                         ELSE DigitValue(number[k])]
    ELSE <<>>

\* The list `digits` of an 8-character number: three letters, two digits,
\* a letter, a digit; the eighth character is not read.
NzDigitsNew(number) ==
    IF /\ \A k \in {1, 2, 3, 6} : NzIsKey(UpperOf(number[k]))
       /\ \A k \in {4, 5, 7} : IsDigit(number[k])
    THEN [k \in 1..7 |-> IF k \in {1, 2, 3, 6} THEN NzLetterValue(UpperOf(number[k]))
                         ELSE DigitValue(number[k])]
    ELSE <<>>

\* sum(d * w for d, w in zip(digits[:6], weights))
RECURSIVE NzTotalSum(_, _)
NzTotalSum(digits, k) ==
    IF k = 0 THEN 0 ELSE NzTotalSum(digits, k - 1) + digits[k] * NzWeights[k]

\* _is_valid_checksum
NzIsValidChecksum(number) ==
    LET digits == IF Len(number) = 7 THEN NzDigitsOld(number)
                  ELSE IF Len(number) = 8 THEN NzDigitsNew(number)
                  ELSE <<>>
    IN IF digits = <<>> THEN FALSE
       ELSE (NzTotalSum(digits, 6) + digits[7]) % 11 = 0

\* `any(keyword in text.lower() for keyword in self.CONTEXT)`
NzHasContext(text) ==
    \E k \in 1..Len(NzContext) : Contains(Lower(text), NzContext[k])

\* The loop body of analyze.
NzRescore(text, result) ==
    LET number == Slice(text, result.start, result.end)
    IN [result EXCEPT !.score = IF NzIsValidChecksum(number)
                                 THEN (IF NzHasContext(text) THEN ScoreOne ELSE 70000)
                                 ELSE 0]

NzResults(text, ignorecase) ==
    LET results == FindIter([i \in 0..Len(text) |-> NzOldMatchAt(text, i, ignorecase)],
                            "NZ_Health_Number", 50000, 0)
                   \o FindIter([i \in 0..Len(text) |-> NzNewMatchAt(text, i, ignorecase)],
                               "NZ_Health_Number", 50000, 0)
    IN [k \in 1..Len(results) |-> NzRescore(text, results[k])]

NzAnalyze ==
    /\ Pending("NewZealandHealthNumberRecognizer.analyze")
    /\ Finish(Return(NzResults(input.text, input.ignorecase)))

(* GermanyBICSwiftRecognizer *)

\* CONTEXT
BicContext ==
    << <<"B", "I", "C">>,
       <<"S", "W", "I", "F", "T">>,
       <<"S", "W", "I", "F", "T", " ", "c", "o", "d", "e">>,
       <<"B", "I", "C", " ", "c", "o", "d", "e">>,
       <<"b", "a", "n", "k", " ", "i", "d", "e", "n", "t", "i", "f", "i", "e", "r", " ", "c", "o", "d", "e">>,
       <<"b", "a", "n", "k", " ", "c", "o", "d", "e">>,
       <<"c", "ó", "d", "i", "g", "o", " ", "S", "W", "I", "F", "T">>,
       <<"c", "ó", "d", "i", "g", "o", " ", "B", "I", "C">>,
       <<"c", "ó", "d", "i", "g", "o", " ", "d", "e", " ", "i", "d", "e", "n", "t", "i", "f", "i", "c", "a", "c", "i", "ó", "n", " ", "b", "a", "n", "c", "a", "r", "i", "a">>,
       <<"c", "o", "d", "e", " ", "B", "I", "C">>,
       <<"c", "o", "d", "e", " ", "S", "W", "I", "F", "T">> >>

\* The characters at offsets pos .. pos+n-1 exist and are letters, or
\* digits where `digits` allows them; small letters count where `small`
\* allows them.
BicRun(text, pos, n, small, digits) ==
    /\ pos + n <= Len(text)
    /\ \A k \in 1..n : \/ IsUpper(text[pos + k])
                       \/ small /\ IsLower(text[pos + k])
                       \/ digits /\ IsDigit(text[pos + k])

\* \b[A-Za-z]{4}DE[A-Za-z0-9]{n}\b at offset start, n being 2 or 5: the
\* end offset, or -1.
BicGermanMatchAt(text, start, n, ignorecase) ==
    IF /\ start + 6 + n <= Len(text)
       /\ WordBoundary(text, start)
       /\ BicRun(text, start, 4, TRUE, FALSE)
       /\ (IF ignorecase THEN Lower(Slice(text, start + 4, start + 6)) = <<"d", "e">>
           ELSE Slice(text, start + 4, start + 6) = <<"D", "E">>)
       /\ BicRun(text, start + 6, n, TRUE, TRUE)
       /\ WordBoundary(text, start + 6 + n)
    THEN start + 6 + n
    ELSE -1

\* \b[A-Z]{6}[A-Z0-9]{n}\b at offset start, n being 2 or 5: the end
\* offset, or -1.
BicAnyMatchAt(text, start, n, ignorecase) ==
    IF /\ start + 6 + n <= Len(text)
       /\ WordBoundary(text, start)
       /\ BicRun(text, start, 6, ignorecase, FALSE)
       /\ BicRun(text, start + 6, n, ignorecase, TRUE)
       /\ WordBoundary(text, start + 6 + n)
    THEN start + 6 + n
    ELSE -1

\* `any(keyword in text.lower() for keyword in self.CONTEXT)`: the text is
\* put in small letters, the keywords are not.
BicHasContext(text) ==
    \E k \in 1..Len(BicContext) : Contains(Lower(text), BicContext[k])

\* The loop body of analyze.
BicRescore(text, result) ==
    [result EXCEPT !.score = IF BicHasContext(text) THEN ScoreOne ELSE 70000]

BicResults(text, ignorecase) ==
    LET results ==
            FindIter([i \in 0..Len(text) |-> BicGermanMatchAt(text, i, 2, ignorecase)],
                     "GERMANY_BIC_SWIFT", 50000, 0)
            \o FindIter([i \in 0..Len(text) |-> BicGermanMatchAt(text, i, 5, ignorecase)],
                        "GERMANY_BIC_SWIFT", 50000, 0)
            \o FindIter([i \in 0..Len(text) |-> BicAnyMatchAt(text, i, 2, ignorecase)],
                        "GERMANY_BIC_SWIFT", 50000, 0)
            \o FindIter([i \in 0..Len(text) |-> BicAnyMatchAt(text, i, 5, ignorecase)],
                        "GERMANY_BIC_SWIFT", 50000, 0)
    IN [k \in 1..Len(results) |-> BicRescore(text, results[k])]

BicAnalyze ==
    /\ Pending("GermanyBICSwiftRecognizer.analyze")
    /\ Finish(Return(BicResults(input.text, input.ignorecase)))

(* The texts: a lead, a gap of spaces, a candidate.  The wide gap puts the *)
(* lead outside the widest context window of the recognizers.              *)

\* The widest window: GermanVATRecognizer._has_context.
ContextWindow == 300

LocalGaps == {1, ContextWindow + 1}

LocalTexts(leads, tokens) ==
    {lead \o Spaces(g) \o token : lead \in leads, g \in LocalGaps, token \in tokens}

SpainLocalTexts ==
    LocalTexts({<<"D", "N", "I">>, <<"d", "n", "i">>, <<"x", "y", "z">>},
               {<<"1", "2", "3", "4", "5", "6", "7", "8", "Z">>, <<"1", "2", "3", "4", "5", "6", "7", "8", "A">>, <<"1", "2", "3", "4", "5", "6", "7", "8", "z">>})

NzLocalTexts ==
    LocalTexts({<<"n", "h", "i">>, <<"N", "H", "I">>, <<"x", "y", "z">>},
               {<<"A", "B", "C", "0", "0", "1", "0">>, <<"A", "B", "C", "0", "0", "1", "1">>, <<"A", "B", "C", "0", "0", "A", "1">>, <<"a", "b", "c", "0", "0", "1", "0">>})

BicLocalTexts ==
    LocalTexts({<<"b", "a", "n", "k", " ", "c", "o", "d", "e">>, <<"B", "A", "N", "K", " ", "C", "O", "D", "E">>, <<"x", "y", "z", "w", " ", "x", "y", "z", "w">>, <<"B", "I", "C">>},
               {<<"D", "E", "U", "T", "D", "E", "F", "F">>, <<"D", "E", "U", "T", "D", "E", "F", "F", "5", "0", "0">>, <<"d", "e", "u", "t", "d", "e", "f", "f">>, <<"D", "E", "U", "T", "D", "E">>})

InitLocal ==
    \/ Called("SpainDNIRecognizer.analyze", [text : SpainLocalTexts, ignorecase : BOOLEAN])
    \/ Called("NewZealandHealthNumberRecognizer.analyze",
              [text : NzLocalTexts, ignorecase : BOOLEAN])
    \/ Called("GermanyBICSwiftRecognizer.analyze", [text : BicLocalTexts, ignorecase : BOOLEAN])

NextLocal ==
    \/ SpainAnalyze
    \/ NzAnalyze
    \/ BicAnalyze

SpecLocal == InitLocal /\ [][NextLocal]_vars

\* The texts the returned call could have been given instead, and what
\* analyze returns on one of them.
LocalOthers ==
    IF recognizer = "SpainDNIRecognizer.analyze" THEN SpainLocalTexts
    ELSE IF recognizer = "NewZealandHealthNumberRecognizer.analyze" THEN NzLocalTexts
    ELSE BicLocalTexts

LocalResults(text) ==
    IF recognizer = "SpainDNIRecognizer.analyze" THEN SpainResults(text, input.ignorecase)
    ELSE IF recognizer = "NewZealandHealthNumberRecognizer.analyze"
         THEN NzResults(text, input.ignorecase)
    ELSE BicResults(text, input.ignorecase)

\* The two texts are as long as each other and agree on the window of
\* ContextWindow characters on either side of the result.
SameWindow(text, other, result) ==
    /\ Len(other) = Len(text)
    /\ Window(other, result.start, result.end, ContextWindow)
       = Window(text, result.start, result.end, ContextWindow)

\* C17: a candidate's score depends on context keywords only inside a
\* fixed-width window around its span: on any other text that agrees with
\* the analysed text on that window (and so on the candidate), the same
\* candidate gets the same score, so that a keyword outside the window
\* changes nothing.
C17_ContextLocality ==
    (pc = "returned" /\ recognizer \in {"SpainDNIRecognizer.analyze",
                                         "NewZealandHealthNumberRecognizer.analyze",
                                         "GermanyBICSwiftRecognizer.analyze"})
    => \A other \in LocalOthers : \A k \in 1..Len(returned.value) :
           SameWindow(input.text, other, returned.value[k])
           => /\ k <= Len(LocalResults(other))
              /\ LocalResults(other)[k] = returned.value[k]

(***************************************************************************)
(* The keyword tests of the recognizers whose CONTEXT has capital letters. *)
(***************************************************************************)

(* SwedenIBANRecognizer *)

\* CONTEXT
SeIbanContext ==
    << <<"I", "B", "A", "N">>,
       <<"S", "w", "e", "d", "e", "n", " ", "I", "B", "A", "N">>,
       <<"i", "n", "t", "e", "r", "n", "a", "t", "i", "o", "n", "a", "l", " ", "b", "a", "n", "k", " ", "a", "c", "c", "o", "u", "n", "t", " ", "n", "u", "m", "b", "e", "r">>,
       <<"b", "a", "n", "k", "k", "o", "n", "t", "o">>,
       <<"k", "o", "n", "t", "o", "n", "u", "m", "m", "e", "r">>,
       <<"n", "u", "m", "m", "e", "r", " ", "I", "B", "A", "N">>,
       <<"I", "B", "A", "N", " ", "n", "u", "m", "m", "e", "r">>,
       <<"b", "a", "n", "k", " ", "c", "o", "d", "e">>,
       <<"b", "a", "n", "k", " ", "i", "d", "e", "n", "t", "i", "f", "i", "e", "r">> >>

\* \bSE\d{2}\d{3}\d{17}\b at offset start: the end offset, or -1.
SeIbanMatchAt(text, start, ignorecase) ==
    IF /\ start + 24 <= Len(text)
       /\ WordBoundary(text, start)
       /\ (IF ignorecase THEN Lower(Slice(text, start, start + 2)) = <<"s", "e">>
           ELSE Slice(text, start, start + 2) = <<"S", "E">>)
       /\ DigitRun(text, start + 2, 22)
       /\ WordBoundary(text, start + 24)
    THEN start + 24
    ELSE -1

\* `any(keyword in nearby_text.lower() for keyword in self.CONTEXT)`, the
\* nearby text being the 100 characters either side of the match.
SeIbanHasContext(text, result) ==
    LET nearby_text == Window(text, result.start, result.end, 100)
    IN \E k \in 1..Len(SeIbanContext) : Contains(Lower(nearby_text), SeIbanContext[k])

\* The loop body of analyze.
SeIbanRescore(text, result) ==
    [result EXCEPT !.score = IF SeIbanHasContext(text, result) THEN ScoreOne ELSE 50000]

SeIbanResults(text, ignorecase) ==
    LET results == FindIter([i \in 0..Len(text) |-> SeIbanMatchAt(text, i, ignorecase)],
                            "SWEDEN_IBAN", 50000, 0)
    IN [k \in 1..Len(results) |-> SeIbanRescore(text, results[k])]

SeIbanAnalyze ==
    /\ Pending("SwedenIBANRecognizer.analyze")
    /\ Finish(Return(SeIbanResults(input.text, input.ignorecase)))

(* AustraliaBankAccountRecognizer.analyze on a text *)

\* KNOWN_BSB_NUMBERS
AuKnownBsbNumbers ==
    { <<"0", "1", "2", "-", "7", "8", "5">>, <<"0", "1", "2", "-", "9", "1", "1">>, <<"0", "1", "3", "-", "9", "6", "1">>, <<"0", "1", "6", "-", "9", "3", "6">>,
      <<"0", "1", "6", "-", "9", "8", "5">>, <<"0", "3", "2", "-", "1", "3", "9">>, <<"0", "3", "3", "-", "1", "4", "1">>, <<"0", "3", "5", "-", "8", "2", "5">>,
      <<"0", "6", "2", "-", "1", "3", "6">>, <<"0", "6", "2", "-", "7", "0", "7">>, <<"0", "6", "2", "-", "9", "0", "4">>, <<"0", "6", "4", "-", "1", "5", "9">>,
      <<"0", "8", "5", "-", "6", "4", "5">>, <<"0", "8", "7", "-", "6", "0", "0">>, <<"1", "0", "5", "-", "0", "6", "9">>, <<"1", "0", "5", "-", "0", "8", "3">>,
      <<"1", "0", "5", "-", "1", "1", "0">>, <<"1", "0", "5", "-", "1", "3", "3">>, <<"1", "0", "5", "-", "1", "4", "1">>, <<"1", "0", "5", "-", "1", "4", "6">>,
      <<"1", "0", "5", "-", "1", "5", "2">>, <<"2", "5", "7", "-", "0", "1", "9">>, <<"2", "5", "7", "-", "0", "2", "8">>, <<"2", "5", "7", "-", "0", "3", "7">>,
      <<"2", "5", "7", "-", "0", "4", "6">>, <<"2", "5", "7", "-", "0", "5", "5">>, <<"2", "5", "7", "-", "0", "6", "4">>, <<"2", "5", "7", "-", "0", "7", "3">>,
      <<"2", "5", "7", "-", "0", "8", "2">>, <<"2", "5", "7", "-", "0", "9", "1">>, <<"2", "5", "7", "-", "1", "0", "0">>, <<"2", "5", "7", "-", "1", "0", "9">>,
      <<"2", "5", "7", "-", "1", "1", "8">>, <<"2", "5", "7", "-", "1", "2", "7">>, <<"2", "5", "7", "-", "1", "3", "6">>, <<"2", "5", "7", "-", "1", "4", "5">>,
      <<"2", "5", "7", "-", "1", "5", "4">>, <<"2", "5", "7", "-", "1", "6", "3">>, <<"2", "5", "7", "-", "1", "7", "2">>, <<"2", "5", "7", "-", "1", "8", "1">>,
      <<"2", "5", "7", "-", "1", "9", "0">>, <<"2", "5", "7", "-", "1", "9", "9">>, <<"2", "5", "7", "-", "2", "0", "8">>, <<"2", "5", "7", "-", "2", "1", "7">>,
      <<"2", "5", "7", "-", "2", "3", "5">>, <<"2", "5", "7", "-", "2", "4", "4">>, <<"2", "5", "7", "-", "2", "5", "3">>, <<"2", "5", "7", "-", "2", "6", "2">>,
      <<"2", "5", "7", "-", "2", "7", "1">>, <<"2", "5", "7", "-", "2", "8", "0">>, <<"2", "5", "7", "-", "2", "8", "9">>, <<"2", "5", "7", "-", "2", "9", "8">>,
      <<"4", "8", "2", "-", "1", "5", "8">>, <<"4", "8", "2", "-", "1", "6", "0">>, <<"4", "8", "4", "-", "0", "9", "5">>, <<"4", "8", "4", "-", "1", "1", "3">>,
      <<"4", "8", "4", "-", "1", "2", "1">>, <<"4", "8", "4", "-", "1", "2", "2">>, <<"4", "8", "4", "-", "1", "2", "3">>, <<"4", "8", "4", "-", "1", "2", "9">>,
      <<"4", "8", "4", "-", "1", "3", "3">>, <<"4", "8", "4", "-", "1", "9", "1">>, <<"4", "8", "4", "-", "1", "9", "2">>, <<"4", "8", "4", "-", "1", "9", "3">>,
      <<"4", "8", "4", "-", "1", "9", "4">>, <<"4", "8", "4", "-", "4", "8", "2">>, <<"4", "8", "4", "-", "5", "5", "2">>, <<"4", "8", "4", "-", "7", "9", "9">>,
      <<"4", "8", "4", "-", "8", "8", "8">>, <<"4", "8", "4", "-", "9", "1", "1">>, <<"4", "8", "4", "-", "9", "1", "5">>, <<"7", "3", "2", "-", "1", "3", "9">>,
      <<"7", "3", "3", "-", "1", "4", "1">>, <<"7", "6", "2", "-", "1", "3", "6">>, <<"7", "6", "2", "-", "7", "0", "7">>, <<"7", "6", "2", "-", "9", "0", "4">>,
      <<"7", "6", "4", "-", "1", "5", "9">>, <<"8", "0", "2", "-", "8", "8", "7">>, <<"8", "0", "3", "-", "1", "1", "0">>, <<"8", "0", "3", "-", "1", "3", "6">>,
      <<"8", "0", "3", "-", "4", "2", "0">>, <<"8", "0", "3", "-", "4", "2", "1">>, <<"8", "0", "7", "-", "1", "2", "5">>, <<"8", "0", "7", "-", "1", "2", "6">>,
      <<"8", "0", "8", "-", "2", "6", "9">>, <<"8", "0", "8", "-", "2", "7", "0">>, <<"8", "0", "8", "-", "2", "7", "1">>, <<"8", "0", "8", "-", "2", "7", "2">>,
      <<"8", "0", "8", "-", "2", "7", "3">>, <<"8", "0", "8", "-", "2", "7", "4">>, <<"8", "0", "8", "-", "2", "7", "5">>, <<"8", "0", "8", "-", "2", "7", "6">>,
      <<"8", "0", "8", "-", "2", "7", "7">> }

\* CONTEXT
AuContext ==
    << <<"b", "a", "n", "k", " ", "a", "c", "c", "o", "u", "n", "t">>,
       <<"a", "c", "c", "o", "u", "n", "t", " ", "n", "u", "m", "b", "e", "r">>,
       <<"A", "u", "s", "t", "r", "a", "l", "i", "a", " ", "b", "a", "n", "k", " ", "a", "c", "c", "o", "u", "n", "t", " ", "n", "u", "m", "b", "e", "r">>,
       <<"A", "c", "c", "t", " ", "N", "u", "m">>,
       <<"s", "w", "i", "f", "t", " ", "b", "a", "n", "k", " ", "c", "o", "d", "e">>,
       <<"c", "o", "r", "r", "e", "s", "p", "o", "n", "d", "e", "n", "t", " ", "b", "a", "n", "k">>,
       <<"b", "a", "s", "e", " ", "c", "u", "r", "r", "e", "n", "c", "y">>,
       <<"A", "u", "s", "t", "r", "a", "l", "i", "a", " ", "b", "a", "n", "k", " ", "a", "c", "c", "o", "u", "n", "t">>,
       <<"a", "c", "c", "o", "u", "n", "t", " ", "h", "o", "l", "d", "e", "r", " ">>,
       <<"b", "a", "n", "k", " ", "a", "d", "d", "r", "e", "s", "s">>,
       <<"i", "n", "f", "o", "r", "m", "a", "t", "i", "o", "n", " ", "a", "c", "c", "o", "u", "n", "t">>,
       <<"f", "u", "n", "d", " ", "t", "r", "a", "n", "s", "f", "e", "r", "s">>,
       <<"b", "a", "n", "k", " ", "c", "h", "a", "r", "g", "e", "s">>,
       <<"b", "a", "n", "k", " ", "d", "e", "t", "a", "i", "l", "s">>,
       <<"b", "a", "n", "k", "i", "n", "g", " ", "i", "n", "f", "o", "r", "m", "a", "t", "i", "o", "n">>,
       <<"a", "c", "c", "o", "u", "n", "t", " ", "n", "u", "m", "b", "e", "r", " ", "w", "i", "t", "h", " ", "b", "s", "b">>,
       <<"a", "c", "c", " ", "n", "o", ".", " ", "w", "i", "t", "h", " ", "b", "s", "b", " ", "c", "o", "d", "e">> >>

\* NEGATIVE_CONTEXT
AuNegativeContext ==
    << <<"d", "r", "i", "v", "e", "r">>,
       <<"l", "i", "c", "e", "n", "s", "e">>,
       <<"i", "d", "e", "n", "t", "i", "f", "i", "c", "a", "t", "i", "o", "n">>,
       <<"p", "e", "r", "m", "i", "t">>,
       <<"l", "i", "c", "e", "n", "c", "e">> >>

\* \d{3}-\d{3} at offset pos.
AuBsbAt(text, pos) ==
    /\ DigitRun(text, pos, 3)
    /\ pos + 4 <= Len(text)
    /\ text[pos + 4] = "-"
    /\ DigitRun(text, pos + 4, 3)

\* \d{6,10}(?!\d)\b at offset pos: the whole run of digits from pos, when it
\* is six to ten digits long and a word boundary follows.  The end offset,
\* or -1.
AuAccountEnd(text, pos) ==
    LET end == DigitsEnd(text, pos)
    IN IF end - pos >= 6 /\ end - pos <= 10 /\ WordBoundary(text, end) THEN end ELSE -1

\* \b(\d{3}-\d{3})-(\d{6,10})(?!\d)\b at offset start: the end offset, or
\* -1.
AuFullMatchAt(text, start) ==
    IF /\ WordBoundary(text, start)
       /\ AuBsbAt(text, start)
       /\ start + 8 <= Len(text)
       /\ text[start + 8] = "-"
    THEN AuAccountEnd(text, start + 8)
    ELSE -1

\* \b\d{6,10}(?!\d)\b at offset start: the end offset, or -1.
AuAccountMatchAt(text, start) ==
    IF WordBoundary(text, start) THEN AuAccountEnd(text, start) ELSE -1

\* \b(\d{3}-\d{3})(?!-\d{3})\b at offset start: the end offset, or -1.
AuBsbMatchAt(text, start) ==
    IF /\ WordBoundary(text, start)
       /\ AuBsbAt(text, start)
       /\ ~(start + 8 <= Len(text) /\ text[start + 8] = "-" /\ DigitRun(text, start + 8, 3))
       /\ WordBoundary(text, start + 7)
    THEN start + 7
    ELSE -1

\* results = super().analyze(...)
AuFound(text) ==
    FindIter([i \in 0..Len(text) |-> AuFullMatchAt(text, i)],
             "AUSTRALIA_BANK_ACCOUNT", 85000, 0)
    \o FindIter([i \in 0..Len(text) |-> AuAccountMatchAt(text, i)],
                "AUSTRALIA_BANK_ACCOUNT", 50000, 0)
    \o FindIter([i \in 0..Len(text) |-> AuBsbMatchAt(text, i)],
                "AUSTRALIA_BANK_ACCOUNT", 80000, 0)

\* re.search(r"(\d{3}-\d{3})-(\d{6,10})", matched): the first place of the
\* matched text where a BSB, a hyphen and six digits stand, and whether
\* the BSB is a known one.
AuBsbOf(matched) ==
    LET places == {i \in 0..Len(matched) :
                      /\ AuBsbAt(matched, i)
                      /\ i + 8 <= Len(matched)
                      /\ matched[i + 8] = "-"
                      /\ DigitRun(matched, i + 8, 6)}
        first == CHOOSE i \in places : \A j \in places : i <= j
    IN IF places = {} THEN "none"
       ELSE IF Slice(matched, first, first + 7) \in AuKnownBsbNumbers THEN "known"
       ELSE "unknown"

\* `any(context_word in text.lower() for context_word in self.CONTEXT)`
AuHasContext(text) ==
    \E k \in 1..Len(AuContext) : Contains(Lower(text), AuContext[k])

\* `any(neg_context_word in text.lower() for ...)`
AuHasNegativeContext(text) ==
    \E k \in 1..Len(AuNegativeContext) : Contains(Lower(text), AuNegativeContext[k])

\* What the loop of analyze reads of the text.
AuRead(text, results) ==
    [context |-> AuHasContext(text),
     negative |-> AuHasNegativeContext(text),
     bsb |-> [span \in {SpanOf(results[k]) : k \in 1..Len(results)} |->
                 AuBsbOf(Slice(text, span[1], span[2]))]]

AuTextResults(text) ==
    AustraliaResults(AuRead(text, AuFound(text)), AuFound(text))

AuTextAnalyze ==
    /\ Pending("AustraliaBankAccountRecognizer.analyze(text)")
    /\ Finish(Return(AuTextResults(input.text)))

(* The texts. *)

SeIbanSentences ==
    TextsOf({<<"I", "B", "A", "N">>, <<"i", "b", "a", "n">>, <<"k", "o", "n", "t", "o", "n", "u", "m", "m", "e", "r">>, <<"K", "O", "N", "T", "O", "N", "U", "M", "M", "E", "R">>, <<"x", "y", "z">>},
            {<<"S", "E", "4", "5", "5", "0", "0", "0", "0", "0", "0", "0", "0", "5", "8", "3", "9", "8", "2", "5", "7", "4", "6", "6">>, <<"s", "e", "4", "5", "5", "0", "0", "0", "0", "0", "0", "0", "0", "5", "8", "3", "9", "8", "2", "5", "7", "4", "6", "6">>, <<"S", "E", "4", "5", "5", "0", "0", "0", "0", "0", "0", "0", "0", "5", "8", "3", "9", "8", "2", "5", "7", "4", "6">>},
            {<<>>})

BicSentences ==
    TextsOf({<<"B", "I", "C">>, <<"b", "i", "c">>, <<"S", "W", "I", "F", "T", " ", "c", "o", "d", "e">>, <<"b", "a", "n", "k", " ", "c", "o", "d", "e">>, <<"B", "A", "N", "K", " ", "C", "O", "D", "E">>, <<"x", "y", "z">>},
            {<<"D", "E", "U", "T", "D", "E", "F", "F">>, <<"D", "E", "U", "T", "D", "E", "F", "F", "5", "0", "0">>, <<"d", "e", "u", "t", "d", "e", "f", "f">>, <<"D", "E", "U", "T", "D", "E">>},
            {<<>>})

AuSentences ==
    TextsOf({<<"A", "c", "c", "t", " ", "N", "u", "m">>, <<"a", "c", "c", "t", " ", "n", "u", "m">>, <<"a", "c", "c", "o", "u", "n", "t", " ", "n", "u", "m", "b", "e", "r">>, <<"A", "C", "C", "O", "U", "N", "T", " ", "N", "U", "M", "B", "E", "R">>, <<"d", "r", "i", "v", "e", "r", " ", "a", "c", "c", "o", "u", "n", "t", " ", "n", "u", "m", "b", "e", "r">>, <<"x", "y", "z">>},
            {<<"1", "2", "3", "4", "5", "6">>, <<"0", "1", "2", "-", "7", "8", "5", "-", "1", "2", "3", "4", "5", "6">>, <<"9", "9", "9", "-", "9", "9", "9", "-", "1", "2", "3", "4", "5", "6">>, <<"0", "1", "2", "-", "7", "8", "5">>, <<"1", "2", "3", "4", "5", "6", "7", "8", "9", "0", "1">>, <<"0", "1", "2", "-", "7", "8", "5", "-", "1", "2", "3">>},
            {<<>>})

InitCase ==
    \/ Called("SwedenIBANRecognizer.analyze", [text : SeIbanSentences, ignorecase : BOOLEAN])
    \/ Called("GermanyBICSwiftRecognizer.analyze", [text : BicSentences, ignorecase : BOOLEAN])
    \/ Called("AustraliaBankAccountRecognizer.analyze(text)", [text : AuSentences])

NextCase ==
    \/ SeIbanAnalyze
    \/ BicAnalyze
    \/ AuTextAnalyze

SpecCase == InitCase /\ [][NextCase]_vars

\* A keyword of the list occurs in the searched text, in any letter case.
KeywordIn(context, searched) ==
    \E k \in 1..Len(context) : Contains(Lower(searched), Lower(context[k]))

\* C18: keyword matching is case-insensitive: when a keyword of the
\* recognizer's context list occurs, in any letter case, in the text that is
\* searched, the context update is applied.  Sweden IBAN and Germany BIC
\* then score 1.0; the Australian recognizer then does not apply its
\* missing-context reduction, so that, with no negative word in the text,
\* every match is returned.
C18_KeywordCaseInsensitive ==
    /\ Returned("SwedenIBANRecognizer.analyze")
       => \A k \in 1..Len(returned.value) :
              KeywordIn(SeIbanContext, Window(input.text, returned.value[k].start,
                                              returned.value[k].end, 100))
              => returned.value[k].score = ScoreOne
    /\ Returned("GermanyBICSwiftRecognizer.analyze")
       => \A k \in 1..Len(returned.value) :
              KeywordIn(BicContext, input.text) => returned.value[k].score = ScoreOne
    /\ Returned("AustraliaBankAccountRecognizer.analyze(text)")
       => (KeywordIn(AuContext, input.text) /\ ~AuHasNegativeContext(input.text)
           => Len(returned.value) = Len(AuFound(input.text)))

(***************************************************************************)
(* ItalyFiscalCodeRecognizer.analyze                                       *)
(***************************************************************************)

\* CONTEXT
ItalyContext ==
    << <<"c", "o", "d", "i", "c", "e", " ", "f", "i", "s", "c", "a", "l", "e">>,
       <<"f", "i", "s", "c", "a", "l", " ", "c", "o", "d", "e">>,
       <<"i", "t", "a", "l", "i", "a", "n", " ", "t", "a", "x", " ", "c", "o", "d", "e">>,
       <<"i", "t", "a", "l", "y", " ", "p", "e", "r", "s", "o", "n", "a", "l", " ", "c", "o", "d", "e">> >>

\* supported_entity, as characters.
ItalyEntityType == <<"I", "T", "A", "L", "Y", "_", "F", "I", "S", "C", "A", "L", "_", "C", "O", "D", "E">>

\* A character of the class, in either case: the first pattern is wrapped
\* in (?i:...), the second follows the flag.
InClass(c, class, ignorecase) ==
    c \in class \/ (ignorecase /\ UpperOf(c) \in class)

\* [ -]? at offset pos: the offset after the separator, if there is one.
ItalySkip(text, pos) ==
    IF pos < Len(text) /\ text[pos + 1] \in {" ", "-"} THEN pos + 1 ELSE pos

\* The characters at offsets pos .. pos+n-1 exist and are of the class.
ClassRun(text, pos, n, class, ignorecase) ==
    /\ pos + n <= Len(text)
    /\ \A k \in 1..n : InClass(text[pos + k], class, ignorecase)

\* (?:[04][1-9]|[1256][0-9]|[37][01]) at offset pos.
ItalyDay(text, pos) ==
    /\ pos + 2 <= Len(text)
    /\ \/ text[pos + 1] \in {"0", "4"} /\ text[pos + 2] \in DigitSet \ {"0"}
       \/ text[pos + 1] \in {"1", "2", "5", "6"} /\ text[pos + 2] \in DigitSet
       \/ text[pos + 1] \in {"3", "7"} /\ text[pos + 2] \in {"0", "1"}

\* The first regex at offset start: surname and name letters, year, month
\* letter, day, place, check letter, with a space or hyphen allowed at
\* three places.  The end offset, or -1.
ItalyHighMatchAt(text, start) ==
    LET name == ItalySkip(text, start + 3)
        year == ItalySkip(text, name + 3)
        place == ItalySkip(text, year + 5)
    IN IF /\ WordBoundary(text, start)
          /\ ClassRun(text, start, 3, UpperSet, TRUE)
          /\ ClassRun(text, name, 3, UpperSet, TRUE)
          /\ DigitRun(text, year, 2)
          /\ ClassRun(text, year + 2, 1,
                      {"A", "B", "C", "D", "E", "H", "L", "M", "P", "R", "S", "T"}, TRUE)
          /\ ItalyDay(text, year + 3)
          /\ ClassRun(text, place, 1, UpperSet \ CharsOf(<<"N", "O", "P", "Q", "R", "S", "T",
                                                           "U", "V", "W", "X", "Y">>), TRUE)
          /\ DigitRun(text, place + 1, 3)
          /\ ClassRun(text, place + 4, 1, UpperSet, TRUE)
          /\ WordBoundary(text, place + 5)
       THEN place + 5
       ELSE -1

\* [B-DF-HJ-NP-TV-Z]
ItalyConsonants == UpperSet \ {"A", "E", "I", "O", "U"}

\* The second regex, anchored at both ends of a text of one line: six
\* consonants, two digits, a month letter, seven digits.  The end offset,
\* or -1.
ItalyMediumMatchAt(text, start, ignorecase) ==
    IF /\ start = 0
       /\ Len(text) = 16
       /\ ClassRun(text, 0, 6, ItalyConsonants, ignorecase)
       /\ DigitRun(text, 6, 2)
       /\ ClassRun(text, 8, 1, {"A", "B", "C", "D", "E", "H", "L", "M", "P", "R", "S", "T"},
                   ignorecase)
       /\ DigitRun(text, 9, 7)
    THEN 16
    ELSE -1

\* re.sub(r'[^A-Z0-9]', '', str)
ItalyClean(str) == SelectSeq(str, LAMBDA c : IsUpper(c) \/ IsDigit(c))

\* `any(keyword.lower() in text.lower() for keyword in self.CONTEXT)`
ItalyHasContext(text) ==
    \E k \in 1..Len(ItalyContext) : Contains(Lower(text), Lower(ItalyContext[k]))

\* The score of a result whose cleaned code is `code`, in a text.
ItalyScore(text, code) ==
    LET score == IF ItalyValidateChecksum(code) = Return(TRUE) THEN ScoreOne ELSE 0
    IN IF ItalyHasContext(text) THEN Min(score + 30000, ScoreOne) ELSE score

\* A rescoring that cleans and validates the matched text.
ItalyRescoreMatched(text, result) ==
    [result EXCEPT !.score = ItalyScore(text, ItalyClean(Slice(text, result.start, result.end)))]

\* The loop body of analyze: the code that is cleaned and validated is
\* result.entity_type.
ItalyRescore(text, result) ==
    [result EXCEPT !.score = ItalyScore(text, ItalyClean(ItalyEntityType))]

ItalyResults(text, ignorecase) ==
    LET results == FindIter([i \in 0..Len(text) |-> ItalyHighMatchAt(text, i)],
                            "ITALY_FISCAL_CODE", ScoreOne, 0)
                   \o FindIter([i \in 0..Len(text) |-> ItalyMediumMatchAt(text, i, ignorecase)],
                               "ITALY_FISCAL_CODE", 70000, 0)
    IN [k \in 1..Len(results) |-> ItalyRescore(text, results[k])]

ItalyAnalyze ==
    /\ Pending("ItalyFiscalCodeRecognizer.analyze")
    /\ Finish(Return(ItalyResults(input.text, input.ignorecase)))

\* The texts: a lead, a code, a tail.
ItalySentences ==
    {lead \o token \o tail :
        lead \in {<<>>, <<"c", "o", "d", "i", "c", "e", " ", "f", "i", "s", "c", "a", "l", "e", " ">>, <<"F", "i", "s", "c", "a", "l", " ", "C", "o", "d", "e", ":", " ">>, <<"x", "y", "z", " ">>},
        token \in {<<"R", "S", "S", "M", "R", "A", "8", "5", "T", "1", "0", "A", "5", "6", "2", "S">>, <<"R", "S", "S", "M", "R", "A", "8", "5", "T", "1", "0", "A", "5", "6", "2", "X">>, <<"R", "S", "S", " ", "M", "R", "A", " ", "8", "5", "T", "1", "0", " ", "A", "5", "6", "2", "S">>, <<"R", "S", "S", "-", "M", "R", "A", "-", "8", "5", "T", "1", "0", "-", "A", "5", "6", "2", "S">>, <<"r", "s", "s", "m", "r", "a", "8", "5", "t", "1", "0", "a", "5", "6", "2", "s">>, <<"B", "C", "D", "F", "G", "H", "1", "2", "A", "3", "4", "5", "6", "7", "8", "9">>, <<"R", "S", "S", "M", "R", "A", "8", "5", "T", "1", "0", "N", "5", "6", "2", "S">>, <<"R", "S", "S", "M", "R", "A", "8", "5", "T", "0", "0", "A", "5", "6", "2", "S">>},
        tail \in {<<>>, <<" ", "o", "k">>, <<".">>}}

InitItaly ==
    Called("ItalyFiscalCodeRecognizer.analyze", [text : ItalySentences, ignorecase : BOOLEAN])

NextItaly == ItalyAnalyze

SpecItaly == InitItaly /\ [][NextItaly]_vars

\* C19: the validation is applied to the matched text: a result whose
\* matched text, separators removed, is a 16-character code with the right
\* check character is scored 1.0, and one with a wrong check character is
\* scored 0.0 plus the context boost (0.3 when a keyword is in the text).
C19_ItalyScoresMatchedText ==
    Returned("ItalyFiscalCodeRecognizer.analyze")
    => \A k \in 1..Len(returned.value) :
           returned.value[k] = ItalyRescoreMatched(input.text, returned.value[k])

(***************************************************************************)
(* NewZealandHealthNumberRecognizer._is_valid_checksum on the two formats. *)
(***************************************************************************)

NzValidate ==
    /\ Pending("NewZealandHealthNumberRecognizer._is_valid_checksum")
    /\ Finish(Return(NzIsValidChecksum(input)))

\* Numbers of seven characters: three letters, two digits, a digit or a
\* letter, a digit; and the same with an eighth character.
NzNumbers ==
    LET seven == {first \o <<d1, d2, c, check>> :
                     first \in {<<"A", "B", "C">>, <<"Z", "Z", "Z">>, <<"H", "J", "K">>},
                     d1 \in {"0", "9"}, d2 \in {"1", "8"},
                     c \in {"0", "5", "A", "K", "a"},
                     check \in DigitSet}
    IN seven \cup {number \o <<"0">> : number \in seven}

NzSentences ==
    TextsOf({<<>>, <<"n", "h", "i">>, <<"N", "H", "I", " ", "n", "u", "m", "b", "e", "r">>, <<"x", "y", "z">>},
            {<<"A", "B", "C", "0", "0", "A", "4">>, <<"A", "B", "C", "0", "0", "A", "1">>, <<"A", "B", "C", "0", "0", "1", "0">>, <<"A", "B", "C", "0", "0", "1", "1">>, <<"a", "b", "c", "0", "0", "1", "0">>, <<"A", "I", "C", "0", "0", "1", "0">>, <<"A", "B", "C", "0", "0", "A", "4", "0">>},
            {<<>>})

InitNz ==
    \/ Called("NewZealandHealthNumberRecognizer._is_valid_checksum", NzNumbers)
    \/ Called("NewZealandHealthNumberRecognizer.analyze",
              [text : NzSentences, ignorecase : BOOLEAN])

NextNz ==
    \/ NzValidate
    \/ NzAnalyze

SpecNz == InitNz /\ [][NextNz]_vars

\* The whole string matches the old-format pattern, or the new-format one.
NzOldFormat(number) == NzOldMatchAt(number, 0, FALSE) = Len(number)
NzNewFormat(number) == NzNewMatchAt(number, 0, FALSE) = Len(number)

\* The rule on a number of either format: the values of the first six
\* characters (a digit's own, a letter's from letters_to_digits) times the
\* weights, plus the check digit, are 0 modulo 11.
NzRule(number) ==
    LET values == [k \in 1..7 |-> IF IsDigit(number[k]) THEN DigitValue(number[k])
                                  ELSE NzLetterValue(number[k])]
    IN (NzTotalSum(values, 6) + values[7]) % 11 = 0

\* C20: on every string of the old format and every string of the new
\* format, _is_valid_checksum returns true exactly when the weighted sum of
\* the first six values plus the check digit is 0 modulo 11; and analyze
\* scores a matched number that satisfies the rule above 0.
C20_NzBothFormats ==
    /\ (Returned("NewZealandHealthNumberRecognizer._is_valid_checksum")
        /\ (NzOldFormat(input) \/ NzNewFormat(input)))
       => returned.value = NzRule(input)
    /\ Returned("NewZealandHealthNumberRecognizer.analyze")
       => \A k \in 1..Len(returned.value) :
              LET number == Slice(input.text, returned.value[k].start, returned.value[k].end)
              IN ((NzOldFormat(number) \/ NzNewFormat(number)) /\ NzRule(number))
                 => returned.value[k].score > 0

(***************************************************************************)
(* The scoring policies of the recognizers, stated on their results.       *)
(***************************************************************************)

\* The first nine characters, weighted 9 down to 1, sum to 0 modulo 11.
RECURSIVE NlVatWeighted(_, _)
NlVatWeighted(number, k) ==
    IF k = 0 THEN 0 ELSE NlVatWeighted(number, k - 1) + DigitValue(number[k]) * (10 - k)

NlVatRule(number) == NlVatWeighted(number, 9) % 11 = 0

\* C21: a match of the Netherlands VAT pattern whose first nine digits
\* satisfy the weighted MOD 11 rule is returned with score 0.9 when a
\* context keyword lies within 50 characters and with 0.5 otherwise; 0.0 is
\* given only when the rule fails.
C21_NlVatScoring ==
    Returned("NetherlandsVATRecognizer.analyze")
    => \A k \in 1..Len(returned.value) :
           LET result == returned.value[k]
               number == Slice(input.text, result.start, result.end)
           IN result.score = IF ~NlVatRule(number) THEN 0
                             ELSE IF NlVatContextPresent(input.text, result) THEN 90000
                             ELSE 50000

\* C22: a negative-context word in the text always suppresses: every
\* candidate of the Australian recognizer ends at no more than 0.15 times
\* its pattern score, so no result above 0.3 is returned for such a text.
C22_NegativeContextSuppresses ==
    (Returned("AustraliaBankAccountRecognizer.analyze(text)")
     /\ AuHasNegativeContext(input.text))
    => \A k \in 1..Len(returned.value) : returned.value[k].score <= 30000

(* CanadaPIPEDARecognizer.analyze *)

\* CONTEXT
PipedaContext ==
    << <<"p", "i", "p", "e", "d", "a">>,
       <<"p", "e", "r", "s", "o", "n", "a", "l", " ", "i", "n", "f", "o", "r", "m", "a", "t", "i", "o", "n">>,
       <<"p", "e", "r", "s", "o", "n", "a", "l", " ", "d", "a", "t", "a">>,
       <<"p", "r", "o", "t", "e", "c", "t", "i", "o", "n">>,
       <<"e", "l", "e", "c", "t", "r", "o", "n", "i", "c", " ", "d", "o", "c", "u", "m", "e", "n", "t", "s">>,
       <<"p", "r", "i", "v", "a", "c", "y">> >>

\* \b\d{3}-\d{3}-\d{3}\b at offset start: the end offset, or -1.
PipedaFormattedMatchAt(text, start) ==
    IF /\ start + 11 <= Len(text)
       /\ WordBoundary(text, start)
       /\ DigitRun(text, start, 3)
       /\ text[start + 4] = "-"
       /\ DigitRun(text, start + 4, 3)
       /\ text[start + 8] = "-"
       /\ DigitRun(text, start + 8, 3)
       /\ WordBoundary(text, start + 11)
    THEN start + 11
    ELSE -1

\* \b\d{9}\b at offset start: the end offset, or -1.
PipedaPlainMatchAt(text, start) ==
    IF /\ start + 9 <= Len(text)
       /\ WordBoundary(text, start)
       /\ DigitRun(text, start, 9)
       /\ WordBoundary(text, start + 9)
    THEN start + 9
    ELSE -1

\* `any(keyword in nearby_text for keyword in self.CONTEXT)`, the nearby
\* text being the 100 characters either side of the match, in small
\* letters.
PipedaHasContext(text, result) ==
    LET nearby_text == Lower(Window(text, result.start, result.end, 100))
    IN \E k \in 1..Len(PipedaContext) : Contains(nearby_text, PipedaContext[k])

\* The loop body of analyze.
PipedaRescore(text, result) ==
    [result EXCEPT !.score = IF PipedaHasContext(text, result) THEN ScoreOne ELSE 70000]

PipedaResults(text) ==
    LET results == FindIter([i \in 0..Len(text) |-> PipedaFormattedMatchAt(text, i)],
                            "CANADA_PIPEDA", 70000, 0)
                   \o FindIter([i \in 0..Len(text) |-> PipedaPlainMatchAt(text, i)],
                               "CANADA_PIPEDA", 60000, 0)
    IN [k \in 1..Len(results) |-> PipedaRescore(text, results[k])]

PipedaAnalyze ==
    /\ Pending("CanadaPIPEDARecognizer.analyze")
    /\ Finish(Return(PipedaResults(input.text)))

PipedaSentences ==
    TextsOf({<<>>, <<"p", "r", "i", "v", "a", "c", "y">>, <<"P", "I", "P", "E", "D", "A">>, <<"x", "y", "z">>},
            {<<"1", "2", "3", "-", "4", "5", "6", "-", "7", "8", "9">>, <<"1", "2", "3", "4", "5", "6", "7", "8", "9">>, <<"1", "2", "3", "-", "4", "5", "6", "-", "7", "8", "9", " ", "9", "8", "7", "6", "5", "4", "3", "2", "1">>, <<"1", "2", "3", "4", "5", "6", "7", "8">>, <<"1", "2", "3", "-", "4", "5", "6", "-", "7", "8", "9", "0">>},
            {<<>>, <<" ", "o", "k">>})

InitOverride ==
    \/ Called("CanadaPIPEDARecognizer.analyze", [text : PipedaSentences])
    \/ Called("GermanyBICSwiftRecognizer.analyze", [text : BicSentences, ignorecase : BOOLEAN])
    \/ Called("NetherlandsDriversLicenseRecognizer.analyze", [text : NlDlSentences])

NextOverride ==
    \/ PipedaAnalyze
    \/ BicAnalyze
    \/ NlDlAnalyze

SpecOverride == InitOverride /\ [][NextOverride]_vars

\* C23: the recognizers that overwrite the score from context give every
\* returned result, whatever its place in the list and whatever the score
\* of its pattern, the fixed high score (1.0) when the recognizer finds a
\* context keyword and the fixed lower score (0.7) when it finds none.
C23_OverridePolicy ==
    /\ Returned("CanadaPIPEDARecognizer.analyze")
       => \A k \in 1..Len(returned.value) :
              returned.value[k].score
              = IF PipedaHasContext(input.text, returned.value[k]) THEN ScoreOne ELSE 70000
    /\ Returned("GermanyBICSwiftRecognizer.analyze")
       => \A k \in 1..Len(returned.value) :
              returned.value[k].score = IF BicHasContext(input.text) THEN ScoreOne ELSE 70000
    /\ (Returned("NetherlandsDriversLicenseRecognizer.analyze") /\ IsList(returned))
       => \A k \in 1..Len(returned.value) :
              returned.value[k].score = IF NlDlHasContext(input.text) THEN ScoreOne ELSE 70000

(* GermanDriversLicenseRecognizer.analyze *)

\* Per span: _has_context of the 300-character window, and
\* _checksum_is_valid of the matched text (eleven characters with a digit
\* and a letter among them; the pattern also matches eleven digits).
GermanDlTexts ==
    [has_context : [ScoredSpans -> BOOLEAN], checksum_is_valid : [ScoredSpans -> BOOLEAN]]

\* The loop body of analyze: with context the score is raised only when the
\* checksum is valid, and is otherwise left as it is.
GermanDlRescore(text, result) ==
    [result EXCEPT !.score = IF text.has_context[SpanOf(result)]
                             THEN (IF text.checksum_is_valid[SpanOf(result)]
                                   THEN Min(result.score + 40000, ScoreOne)
                                   ELSE result.score)
                             ELSE Times(result.score, 5, 10)]

GermanDlAnalyze ==
    /\ Pending("GermanDriversLicenseRecognizer.analyze")
    /\ Finish(Return([k \in 1..Len(input.results) |->
                         GermanDlRescore(input.text, input.results[k])]))

InitAdditive ==
    \/ Called("MedicalRecordNumberRecognizer.enhance_pattern_result",
              [found : SUBSET {MrnContext[k] : k \in 1..Len(MrnContext)},
               pattern_result : BaseResults("MRN")])
    \/ Called("SSNAndTINRecognizer.analyze",
              [text : SsnTexts, results : SeqsUpTo(BaseResults("US_SSN_ITIN"), MaxScored)])
    \/ Called("GermanDriversLicenseRecognizer.analyze",
              [text : GermanDlTexts,
               results : SeqsUpTo(BaseResults("GERMAN_DRIVERS_LICENSE"), MaxScored)])

NextAdditive ==
    \/ MrnEnhancePatternResult
    \/ SsnAnalyze
    \/ GermanDlAnalyze

SpecAdditive == InitAdditive /\ [][NextAdditive]_vars

\* min(score + boost, 1.0) with a keyword in the window, score * decay / 100
\* without.
Additive(score, boost, decay, keyword_found) ==
    IF keyword_found THEN Min(score + boost, ScoreOne) ELSE Times(score, decay, 100)

\* C24: the recognizers that boost additively raise the score to
\* min(score + boost, 1.0), once, whenever at least one context keyword is
\* in the window, however many are found (medical record number +0.1, US
\* SSN/ITIN and German driver's licence +0.4); with no keyword the score is
\* multiplied by the decay (0.5) or, for the medical record number, left
\* unchanged.
C24_AdditivePolicy ==
    /\ Returned("MedicalRecordNumberRecognizer.enhance_pattern_result")
       => returned.value.score
          = Additive(input.pattern_result.score, 10000, 100, input.found # {})
    /\ Returned("SSNAndTINRecognizer.analyze")
       => \A k \in 1..Len(returned.value) : \E j \in 1..Len(input.results) :
              /\ SpanOf(input.results[j]) = SpanOf(returned.value[k])
              /\ returned.value[k].score
                 = Additive(input.results[j].score, 40000, 50,
                            input.text.has_context[SpanOf(input.results[j])])
    /\ Returned("GermanDriversLicenseRecognizer.analyze")
       => \A k \in 1..Len(returned.value) :
              returned.value[k].score
              = Additive(input.results[k].score, 40000, 50,
                         input.text.has_context[SpanOf(input.results[k])])

\* C25: the track-data recognizer returns results only when the text holds
\* the three kinds of signal together: a card number, an expiry date and a
\* person name.  Three hits of one kind do not make it return results.
C25_TrackCorrelatedSignals ==
    (Returned("CCTrackDataRecognizer.analyze") /\ returned.value # <<>>)
    => /\ \E k \in 1..Len(input.text) : input.text[k] \in CcnTokens
       /\ \E k \in 1..Len(input.text) : input.text[k] \in ExpiryTokens
       /\ \E k \in 1..Len(input.entities) : input.entities[k].label_ = "PERSON"

(***************************************************************************)
(* The recognizers that score in three levels: 0.0 for a failed checksum,  *)
(* 0.7 for a valid one, 1.0 for a valid one with a context keyword in the  *)
(* text.                                                                   *)
(***************************************************************************)

\* The three levels.
ThreeLevels(valid, keyword_found) ==
    IF valid THEN (IF keyword_found THEN ScoreOne ELSE 70000) ELSE 0

(* NetherlandsNationalIDRecognizer.analyze *)

\* CONTEXT
NlIdContext ==
    << <<"b", "u", "r", "g", "e", "r", "s", "e", "r", "v", "i", "c", "e", "n", "u", "m", "m", "e", "r">>,
       <<"n", "a", "t", "i", "o", "n", "a", "l", " ", "i", "d", "e", "n", "t", "i", "f", "i", "c", "a", "t", "i", "o", "n", " ", "n", "u", "m", "b", "e", "r">>,
       <<"b", "s", "n">>,
       <<"n", "a", "t", "i", "o", "n", "a", "l", " ", "I", "D">>,
       <<"n", "u", "m", "m", "e", "r">>,
       <<"I", "D", " ", "n", "u", "m", "b", "e", "r">>,
       <<"i", "d", "e", "n", "t", "i", "f", "i", "c", "a", "t", "i", "e", "n", "u", "m", "m", "e", "r">> >>

\* \b[0-9]{9}\b at offset start: the end offset, or -1.
NlIdMatchAt(text, start) ==
    IF /\ start + 9 <= Len(text)
       /\ WordBoundary(text, start)
       /\ DigitRun(text, start, 9)
       /\ WordBoundary(text, start + 9)
    THEN start + 9
    ELSE -1

\* `any(keyword in text.lower() for keyword in self.CONTEXT)`
NlIdHasContext(text) ==
    \E k \in 1..Len(NlIdContext) : Contains(Lower(text), NlIdContext[k])

\* The loop body of analyze.
NlIdRescore(text, result) ==
    LET national_id == Slice(text, result.start, result.end)
    IN [result EXCEPT !.score = ThreeLevels(NlIsValidChecksum(national_id) = Return(TRUE),
                                            NlIdHasContext(text))]

NlIdResults(text) ==
    LET results == FindIter([i \in 0..Len(text) |-> NlIdMatchAt(text, i)],
                            "NETHERLANDS_NATIONAL_ID", 70000, 0)
    IN [k \in 1..Len(results) |-> NlIdRescore(text, results[k])]

NlIdAnalyze ==
    /\ Pending("NetherlandsNationalIDRecognizer.analyze")
    /\ Finish(Return(NlIdResults(input.text)))

(* SwedenNationalIDRecognizer.analyze *)

\* CONTEXT
SeIdContext ==
    << <<"i", "d", " ", "n", "o">>,
       <<"i", "d", " ", "n", "u", "m", "b", "e", "r">>,
       <<"i", "d", "#">>,
       <<"i", "d", "e", "n", "t", "i", "f", "i", "c", "a", "t", "i", "o", "n", " ", "n", "o">>,
       <<"i", "d", "e", "n", "t", "i", "f", "i", "c", "a", "t", "i", "o", "n", " ", "n", "u", "m", "b", "e", "r">>,
       <<"i", "d", "e", "n", "t", "i", "f", "i", "k", "a", "t", "i", "o", "n", "s", "n", "u", "m", "r", "e", "t", "#">>,
       <<"i", "d", "e", "n", "t", "i", "f", "i", "k", "a", "t", "i", "o", "n", "s", "n", "u", "m", "r", "e", "t">>,
       <<"i", "d", "e", "n", "t", "i", "t", "e", "t", "s", "h", "a", "n", "d", "l", "i", "n", "g">>,
       <<"i", "d", "e", "n", "t", "i", "t", "y", " ", "d", "o", "c", "u", "m", "e", "n", "t">>,
       <<"i", "d", "e", "n", "t", "i", "t", "y", " ", "n", "o">>,
       <<"i", "d", "e", "n", "t", "i", "t", "y", " ", "n", "u", "m", "b", "e", "r">>,
       <<"i", "d", "-", "n", "u", "m", "m", "e", "r">>,
       <<"p", "e", "r", "s", "o", "n", "a", "l", " ", "i", "d">>,
       <<"p", "e", "r", "s", "o", "n", "n", "u", "m", "m", "e", "r", "#">>,
       <<"p", "e", "r", "s", "o", "n", "n", "u", "m", "m", "e", "r">>,
       <<"s", "k", "a", "t", "t", "e", "i", "d", "e", "n", "t", "i", "f", "i", "k", "a", "t", "i", "o", "n", "s", "n", "u", "m", "m", "e", "r">> >>

\* [-+]? at offset pos: the offset after the delimiter, if there is one.
SeIdSkip(text, pos) ==
    IF pos < Len(text) /\ text[pos + 1] \in {"-", "+"} THEN pos + 1 ELSE pos

\* n digits, the optional delimiter, four digits and a word boundary, from
\* offset start: the end offset, or -1.
SeIdBody(text, start, n) ==
    LET last == SeIdSkip(text, start + n)
    IN IF /\ DigitRun(text, start, n)
          /\ DigitRun(text, last, 4)
          /\ WordBoundary(text, last + 4)
       THEN last + 4
       ELSE -1

\* \b\d{2}?\d{6}[-+]?(\d{4})\b at offset start: {2}? is the lazy form of
\* exactly two, so eight digits come before the delimiter.  The end offset,
\* or -1.
SeIdPlainMatchAt(text, start) ==
    IF WordBoundary(text, start) THEN SeIdBody(text, start, 8) ELSE -1

\* [0-9]{2}(?:0[1-9]|1[0-2])(?:0[1-9]|[12][0-9]|3[01])[-+]?[0-9]{4}\b from
\* offset start: a year, a month, a day, the delimiter, four digits.  The
\* end offset, or -1.
SeIdDated(text, start) ==
    LET month == Slice(text, start + 2, start + 4)
        day == Slice(text, start + 4, start + 6)
    IN IF /\ start + 6 <= Len(text)
          /\ \/ month[1] = "0" /\ month[2] \in DigitSet \ {"0"}
             \/ month[1] = "1" /\ month[2] \in {"0", "1", "2"}
          /\ \/ day[1] = "0" /\ day[2] \in DigitSet \ {"0"}
             \/ day[1] \in {"1", "2"} /\ day[2] \in DigitSet
             \/ day[1] = "3" /\ day[2] \in {"0", "1"}
       THEN SeIdBody(text, start, 6)
       ELSE -1

\* \b(?:19|20)?... at offset start: the century is tried first.  The end
\* offset, or -1.
SeIdDatedMatchAt(text, start) ==
    LET century == /\ start + 2 <= Len(text)
                   /\ Slice(text, start, start + 2) \in {<<"1", "9">>, <<"2", "0">>}
    IN IF ~WordBoundary(text, start) THEN -1
       ELSE IF century /\ SeIdDated(text, start + 2) # -1 THEN SeIdDated(text, start + 2)
       ELSE SeIdDated(text, start)

\* `any(keyword in text.lower() for keyword in self.CONTEXT)`
SeIdHasContext(text) ==
    \E k \in 1..Len(SeIdContext) : Contains(Lower(text), SeIdContext[k])

\* re.sub(r"[-+]", "", national_id)
SeIdCleaned(national_id) == SelectSeq(national_id, LAMBDA c : c \notin {"-", "+"})

\* A rescoring that leaves a valid number without context at the score of
\* its pattern.
SeIdRescoreKeepsBase(text, result) ==
    LET valid == SwedenIsValidChecksum(SeIdCleaned(Slice(text, result.start, result.end)))
                 = Return(TRUE)
    IN [result EXCEPT !.score = IF valid /\ ~SeIdHasContext(text) THEN @
                                 ELSE ThreeLevels(valid, SeIdHasContext(text))]

\* The loop body of analyze.
SeIdRescore(text, result) ==
    LET national_id == Slice(text, result.start, result.end)
        cleaned_national_id == SeIdCleaned(national_id)
    IN [result EXCEPT !.score =
            ThreeLevels(SwedenIsValidChecksum(cleaned_national_id) = Return(TRUE),
                        SeIdHasContext(text))]

SeIdResults(text) ==
    LET results == FindIter([i \in 0..Len(text) |-> SeIdPlainMatchAt(text, i)],
                            "SWEDEN_NATIONAL_ID", 50000, 0)
                   \o FindIter([i \in 0..Len(text) |-> SeIdDatedMatchAt(text, i)],
                               "SWEDEN_NATIONAL_ID", ScoreOne, 0)
    IN [k \in 1..Len(results) |-> SeIdRescore(text, results[k])]

SeIdAnalyze ==
    /\ Pending("SwedenNationalIDRecognizer.analyze")
    /\ Finish(Return(SeIdResults(input.text)))

NlIdSentences ==
    TextsOf({<<>>, <<"b", "s", "n">>, <<"B", "S", "N">>, <<"x", "y", "z">>},
            {<<"1", "1", "1", "2", "2", "2", "3", "3", "3">>, <<"1", "2", "3", "4", "5", "6", "7", "8", "9">>, <<"1", "1", "1", "2", "2", "2", "3", "3", "3", " ", "1", "2", "3", "4", "5", "6", "7", "8", "9">>, <<"1", "2", "3", "4", "5", "6", "7", "8">>},
            {<<>>, <<" ", "o", "k">>})

SeIdSentences ==
    TextsOf({<<>>, <<"p", "e", "r", "s", "o", "n", "n", "u", "m", "m", "e", "r">>, <<"P", "e", "r", "s", "o", "n", "n", "u", "m", "m", "e", "r">>, <<"x", "y", "z">>},
            {<<"8", "1", "1", "2", "2", "8", "9", "8", "7", "4">>, <<"1", "9", "8", "1", "9", "9", "2", "8", "9", "8", "7", "4">>, <<"2", "0", "2", "0", "0", "1", "0", "1", "-", "1", "2", "3", "5">>, <<"8", "1", "1", "2", "2", "8", "-", "9", "8", "7", "4">>, <<"1", "9", "8", "1", "1", "2", "2", "8", "9", "8", "7", "4">>, <<"1", "9", "8", "1", "1", "2", "2", "8", "+", "9", "8", "7", "4">>, <<"8", "1", "1", "2", "2", "8", "9", "8", "7", "5">>, <<"8", "1", "9", "9", "9", "9", "9", "8", "7", "4">>, <<"2", "0", "2", "0", "0", "1", "0", "1", "1", "2", "3", "4">>, <<"8", "1", "1", "2", "2", "8", "-", "9", "8", "7", "4", "5">>},
            {<<>>, <<" ", "o", "k">>})

(* SpainSSNRecognizer.analyze *)

\* CONTEXT
SpainSsnContext ==
    << <<"s", "s", "n">>,
       <<"s", "s", "n", "#">>,
       <<"s", "o", "c", "i", "a", "l", "s", "e", "c", "u", "r", "i", "t", "y", "n", "o">>,
       <<"s", "o", "c", "i", "a", "l", " ", "s", "e", "c", "u", "r", "i", "t", "y", " ", "n", "o">>,
       <<"s", "o", "c", "i", "a", "l", " ", "s", "e", "c", "u", "r", "i", "t", "y", " ", "n", "u", "m", "b", "e", "r">>,
       <<"n", "Ã", "º", "m", "e", "r", "o", " ", "d", "e", " ", "l", "a", " ", "s", "e", "g", "u", "r", "i", "d", "a", "d", " ", "s", "o", "c", "i", "a", "l">> >>

\* An optional character of `chars` at offset pos: the offset after it.
SkipOne(text, pos, chars) ==
    IF pos < Len(text) /\ text[pos + 1] \in chars THEN pos + 1 ELSE pos

\* (?:\b[0-6][0-9][ -]?[0-9]{8}[ -]?[0-9]{2}\b) at offset start: the end
\* offset, or -1.
SpainSsnHighMatchAt(text, start) ==
    LET body == SkipOne(text, start + 2, {" ", "-"})
        check == SkipOne(text, body + 8, {" ", "-"})
    IN IF /\ WordBoundary(text, start)
          /\ DigitRun(text, start, 2)
          /\ text[start + 1] \in {"0", "1", "2", "3", "4", "5", "6"}
          /\ DigitRun(text, body, 8)
          /\ DigitRun(text, check, 2)
          /\ WordBoundary(text, check + 2)
       THEN check + 2
       ELSE -1

\* \d{2}/?\d{n}/?\d{2}\b from offset start: the end offset, or -1.
SpainSsnSlashed(text, start, n) ==
    LET body == SkipOne(text, start + 2, {"/"})
        check == SkipOne(text, body + n, {"/"})
    IN IF /\ DigitRun(text, start, 2)
          /\ DigitRun(text, body, n)
          /\ DigitRun(text, check, 2)
          /\ WordBoundary(text, check + 2)
       THEN check + 2
       ELSE -1

\* \b\d{2}/?\d{7,8}/?\d{2}\b at offset start: eight digits are tried before
\* seven.  The end offset, or -1.
SpainSsnAlternateMatchAt(text, start) ==
    IF ~WordBoundary(text, start) THEN -1
    ELSE IF SpainSsnSlashed(text, start, 8) # -1 THEN SpainSsnSlashed(text, start, 8)
    ELSE SpainSsnSlashed(text, start, 7)

\* zfill(2) of str(n), for n below 100.
ZFill2(n) == <<DigitChars[(n \div 10) + 1], DigitChars[(n % 10) + 1]>>

\* SpainSSNRecognizer._is_valid_checksum
SpainSsnIsValidChecksum(ssn) ==
    LET ssn_digits == SelectSeq(ssn, IsDigit)
        n == Len(ssn_digits)
        base_number == SubSeq(ssn_digits, 1, n - 2)
        checksum == SubSeq(ssn_digits, n - 1, n)
        calculated_checksum == ZFill2(IntMod(IntLiteral(base_number), 97))
    IN IF n < 10 THEN FALSE ELSE checksum = calculated_checksum

\* `any(keyword in text.lower() for keyword in self.CONTEXT)`
SpainSsnHasContext(text) ==
    \E k \in 1..Len(SpainSsnContext) : Contains(Lower(text), SpainSsnContext[k])

\* The loop body of analyze.
SpainSsnRescore(text, result) ==
    LET ssn == Slice(text, result.start, result.end)
    IN [result EXCEPT !.score = ThreeLevels(SpainSsnIsValidChecksum(ssn),
                                            SpainSsnHasContext(text))]

SpainSsnResults(text) ==
    LET results == FindIter([i \in 0..Len(text) |-> SpainSsnHighMatchAt(text, i)],
                            "SPAIN_SSN", 50000, 0)
                   \o FindIter([i \in 0..Len(text) |-> SpainSsnAlternateMatchAt(text, i)],
                               "SPAIN_SSN", 50000, 0)
    IN [k \in 1..Len(results) |-> SpainSsnRescore(text, results[k])]

SpainSsnAnalyze ==
    /\ Pending("SpainSSNRecognizer.analyze")
    /\ Finish(Return(SpainSsnResults(input.text)))

(* FranceVATRecognizer.analyze *)

\* CONTEXT
FrVatContext ==
    << <<"v", "a", "t", " ", "n", "u", "m", "b", "e", "r">>,
       <<"v", "a", "t", " ", "n", "o">>,
       <<"v", "a", "t", "#">>,
       <<"v", "a", "l", "u", "e", " ", "a", "d", "d", "e", "d", " ", "t", "a", "x">>,
       <<"s", "i", "r", "e", "n", " ", "i", "d", "e", "n", "t", "i", "f", "i", "c", "a", "t", "i", "o", "n", " ", "n", "o">>,
       <<"n", "u", "m", "é", "r", "o", " ", "d", "'", "i", "d", "e", "n", "t", "i", "f", "i", "c", "a", "t", "i", "o", "n">>,
       <<"t", "a", "x", "e", " ", "s", "u", "r", " ", "l", "a", " ", "v", "a", "l", "e", "u", "r", " ", "a", "j", "o", "u", "t", "é", "e">>,
       <<"n", "°", " ", "t", "v", "a">>,
       <<"n", "u", "m", "é", "r", "o", " ", "d", "e", " ", "t", "v", "a">>,
       <<"n", "u", "m", "é", "r", "o", " ", "d", "'", "i", "d", "e", "n", "t", "i", "f", "i", "c", "a", "t", "i", "o", "n", " ", "s", "i", "r", "e", "n">> >>

\* The literal FR at offset start; with IGNORECASE in either case.
FrVatPrefix(text, start, ignorecase) ==
    /\ start + 2 <= Len(text)
    /\ WordBoundary(text, start)
    /\ LET prefix == Slice(text, start, start + 2)
       IN IF ignorecase THEN Lower(prefix) = <<"f", "r">> ELSE prefix = <<"F", "R">>

\* \bFR[-\s]?[A-Za-z0-9]{2}[-\s,.]?\d{3}[-\s,.]?\d{3}[-\s,.]?\d{3}\b at
\* offset start: the end offset, or -1.
FrVatGroupedMatchAt(text, start, ignorecase) ==
    LET key == SkipOne(text, start + 2, {"-", " "})
        g1 == SkipOne(text, key + 2, {"-", " ", ",", "."})
        g2 == SkipOne(text, g1 + 3, {"-", " ", ",", "."})
        g3 == SkipOne(text, g2 + 3, {"-", " ", ",", "."})
    IN IF /\ FrVatPrefix(text, start, ignorecase)
          /\ key + 2 <= Len(text)
          /\ \A i \in 1..2 : IsDigit(text[key + i]) \/ IsAlpha(text[key + i])
          /\ DigitRun(text, g1, 3)
          /\ DigitRun(text, g2, 3)
          /\ DigitRun(text, g3, 3)
          /\ WordBoundary(text, g3 + 3)
       THEN g3 + 3
       ELSE -1

\* \bFR\d{11}\b at offset start: the end offset, or -1.
FrVatPlainMatchAt(text, start, ignorecase) ==
    IF /\ FrVatPrefix(text, start, ignorecase)
       /\ DigitRun(text, start + 2, 11)
       /\ WordBoundary(text, start + 13)
    THEN start + 13
    ELSE -1

\* FranceVATRecognizer._is_valid_checksum: int() of a numeric part that is
\* no number raises ValueError, which is caught.
FrVatIsValidChecksum(vat) ==
    LET numeric_part == SubSeq(vat, 3, Len(vat))
        lit == IntLiteral(numeric_part)
    IN IF Len(vat) < 2 \/ SubSeq(vat, 1, 2) # <<"F", "R">> \/ Len(vat) < 13 THEN FALSE
       ELSE IF ~lit.ok THEN FALSE
       ELSE IntMod(lit, 97) = 0

\* `any(keyword in text.lower() for keyword in self.CONTEXT)`
FrVatHasContext(text) ==
    \E k \in 1..Len(FrVatContext) : Contains(Lower(text), FrVatContext[k])

\* re.sub(r"[-\s,.]", "", vat_number)
FrVatCleaned(vat_number) ==
    SelectSeq(vat_number, LAMBDA c : c \notin {"-", " ", ",", "."})

\* The loop body of analyze.
FrVatRescore(text, result) ==
    LET vat_number == Slice(text, result.start, result.end)
        cleaned_vat == FrVatCleaned(vat_number)
    IN [result EXCEPT !.score = ThreeLevels(FrVatIsValidChecksum(cleaned_vat),
                                            FrVatHasContext(text))]

FrVatResults(text, ignorecase) ==
    LET results == FindIter([i \in 0..Len(text) |-> FrVatGroupedMatchAt(text, i, ignorecase)],
                            "FRANCE_VAT", 50000, 0)
                   \o FindIter([i \in 0..Len(text) |-> FrVatPlainMatchAt(text, i, ignorecase)],
                               "FRANCE_VAT", 50000, 0)
    IN [k \in 1..Len(results) |-> FrVatRescore(text, results[k])]

FrVatAnalyze ==
    /\ Pending("FranceVATRecognizer.analyze")
    /\ Finish(Return(FrVatResults(input.text, input.ignorecase)))

SpainSsnSentences ==
    TextsOf({<<>>, <<"s", "s", "n">>, <<"S", "S", "N">>, <<"x", "y", "z">>},
            {<<"2", "8", "1", "2", "3", "4", "5", "6", "7", "8", "4", "0">>, <<"2", "8", " ", "1", "2", "3", "4", "5", "6", "7", "8", " ", "4", "0">>, <<"2", "8", "/", "1", "2", "3", "4", "5", "6", "7", "8", "/", "4", "0">>, <<"2", "8", "1", "2", "3", "4", "5", "6", "7", "8", "4", "1">>, <<"2", "8", "1", "2", "3", "4", "5", "6", "7", "4", "2">>, <<"2", "8", "/", "1", "2", "3", "4", "5", "6", "7", "/", "4", "2">>, <<"2", "8", "/", "1", "2", "3", "4", "5", "6", "7", "/", "4", "3">>, <<"7", "8", "1", "2", "3", "4", "5", "6", "7", "8", "4", "0">>, <<"2", "8", "-", "1", "2", "3", "4", "5", "6", "7", "8", "-", "4", "0", " ", "2", "8", "1", "2", "3", "4", "5", "6", "7", "8", "4", "1">>},
            {<<>>, <<" ", "o", "k">>})

FrVatSentences ==
    TextsOf({<<>>, <<"v", "a", "t", " ", "n", "u", "m", "b", "e", "r">>, <<"V", "A", "T", " ", "N", "o">>, <<"x", "y", "z">>},
            {<<"F", "R", "1", "2", "3", "4", "5", "6", "7", "8", "8", "8", "0">>, <<"F", "R", "1", "2", "3", "4", "5", "6", "7", "8", "9", "0", "1">>, <<"F", "R", " ", "1", "2", " ", "3", "4", "5", " ", "6", "7", "8", " ", "8", "8", "0">>, <<"F", "R", "-", "1", "2", ".", "3", "4", "5", ",", "6", "7", "8", "-", "8", "8", "0">>, <<"F", "R", "A", "B", "3", "4", "5", "6", "7", "8", "8", "8", "0">>, <<"f", "r", "1", "2", "3", "4", "5", "6", "7", "8", "8", "8", "0">>, <<"F", "R", "0", "0", "0", "0", "0", "0", "0", "0", "0", "9", "7", " ", "F", "R", "1", "2", "3", "4", "5", "6", "7", "8", "9", "0", "1">>, <<"F", "R", "1", "2", "3", "4", "5", "6", "7", "8", "8", "8">>},
            {<<>>, <<" ", "o", "k">>})

InitGated ==
    \/ Called("NetherlandsNationalIDRecognizer.analyze", [text : NlIdSentences])
    \/ Called("SwedenNationalIDRecognizer.analyze", [text : SeIdSentences])
    \/ Called("SpainSSNRecognizer.analyze", [text : SpainSsnSentences])
    \/ Called("FranceVATRecognizer.analyze", [text : FrVatSentences, ignorecase : BOOLEAN])

NextGated ==
    \/ NlIdAnalyze
    \/ SeIdAnalyze
    \/ SpainSsnAnalyze
    \/ FrVatAnalyze

SpecGated == InitGated /\ [][NextGated]_vars

\* The score the three-level rule gives a returned result: the validator of
\* the recognizer on the matched text, the keyword search of the recognizer
\* on the text.
GatedScore(method, text, result) ==
    LET matched == Slice(text, result.start, result.end)
    IN CASE method = "NetherlandsNationalIDRecognizer.analyze" ->
                ThreeLevels(NlIsValidChecksum(matched) = Return(TRUE), NlIdHasContext(text))
         [] method = "SwedenNationalIDRecognizer.analyze" ->
                ThreeLevels(SwedenIsValidChecksum(SeIdCleaned(matched)) = Return(TRUE),
                            SeIdHasContext(text))
         [] method = "SpainSSNRecognizer.analyze" ->
                ThreeLevels(SpainSsnIsValidChecksum(matched), SpainSsnHasContext(text))
         [] method = "FranceVATRecognizer.analyze" ->
                ThreeLevels(FrVatIsValidChecksum(FrVatCleaned(matched)), FrVatHasContext(text))

C27_DeterministicPatternOrder ==
    Returned("LowThresholdHIPAARecognizer.__init__")
    => returned.value.patterns = LtLoadPatterns(input.icd9, input.icd10, TRUE)

(***************************************************************************)
(* PCI_DSS_CreditCardAndTrackDataRecognizer.                               *)
(***************************************************************************)

\* The literal that opens TRACK_DATA_PATTERN.
PciTrackLiteral == <<"\"", "C", "r", "e", "d", "i", "t", "_", "C", "a", "r", "d", "_", "N", "u", "m", "b", "e", "r", "\"">>

\* \b(?:\d{4}[- ]?){3}\d{4}\b at offset start: the end offset, or -1.
PciCardMatchAt(text, start) ==
    LET g2 == SkipOne(text, start + 4, {"-", " "})
        g3 == SkipOne(text, g2 + 4, {"-", " "})
        g4 == SkipOne(text, g3 + 4, {"-", " "})
    IN IF /\ WordBoundary(text, start)
          /\ DigitRun(text, start, 4)
          /\ DigitRun(text, g2, 4)
          /\ DigitRun(text, g3, 4)
          /\ DigitRun(text, g4, 4)
          /\ WordBoundary(text, g4 + 4)
       THEN g4 + 4
       ELSE -1

\* \s* at offset pos: the offset after the spaces.
RECURSIVE SpacesEnd(_, _)
SpacesEnd(text, pos) ==
    IF pos < Len(text) /\ IsSpace(text[pos + 1]) THEN SpacesEnd(text, pos + 1) ELSE pos

\* TRACK_DATA_PATTERN at offset start: the start offset of group 1, the 16
\* digits between the quotes, or -1.  The literal and the `s` match in
\* either case under IGNORECASE.
PciTrackGroupAt(text, start, ignorecase) ==
    LET n == Len(PciTrackLiteral)
        head == Slice(text, start, start + n)
        s == SpacesEnd(text, start + n)
        count == SpacesEnd(text, s + 1)
        quote == SpacesEnd(text, DigitsEnd(text, count))
    IN IF /\ start + n <= Len(text)
          /\ IF ignorecase THEN Lower(head) = Lower(PciTrackLiteral)
             ELSE head = PciTrackLiteral
          /\ s < Len(text)
          /\ text[s + 1] \in (IF ignorecase THEN {"s", "S"} ELSE {"s"})
          /\ DigitsEnd(text, count) > count
          /\ quote < Len(text)
          /\ text[quote + 1] = "\""
          /\ DigitRun(text, quote + 1, 16)
          /\ quote + 17 < Len(text)
          /\ text[quote + 18] = "\""
       THEN quote + 1
       ELSE -1

\* TRACK_DATA_PATTERN at offset start: the end offset, or -1.
PciTrackMatchAt(text, start, ignorecase) ==
    IF PciTrackGroupAt(text, start, ignorecase) = -1 THEN -1
    ELSE PciTrackGroupAt(text, start, ignorecase) + 17

\* validate_ccn
PciValidateCcn(ccn) == LuhnChecksum(SelectSeq(ccn, IsDigit))

\* detect_track_data: re.finditer without flags, group 1 of each match, the
\* Luhn-valid ones kept.
PciDetectTrackData(text) ==
    LET matches == FindIter([i \in 0..Len(text) |-> PciTrackMatchAt(text, i, FALSE)],
                            "CREDIT_CARD_TRACK_DATA", 90000, 0)
        groups == [k \in 1..Len(matches) |->
                      [matches[k] EXCEPT
                          !.start = PciTrackGroupAt(text, matches[k].start, FALSE),
                          !.end = PciTrackGroupAt(text, matches[k].start, FALSE) + 16]]
    IN SelectSeq(groups, LAMBDA r : PciValidateCcn(Slice(text, r.start, r.end)))

\* A filter that keeps the last result of each (start, end) pair.
RECURSIVE PciFilterKeepsLast(_)
PciFilterKeepsLast(results) ==
    IF results = <<>> THEN <<>>
    ELSE LET result == Head(results)
         IN IF \E k \in 2..Len(results) : SpanOf(results[k]) = SpanOf(result)
            THEN PciFilterKeepsLast(Tail(results))
            ELSE <<result>> \o PciFilterKeepsLast(Tail(results))

\* filter_unique_results
PciFilterUniqueResults(results) ==
    LET RECURSIVE Loop(_, _, _)
        Loop(k, unique_results, seen_positions) ==
            IF k > Len(results) THEN unique_results
            ELSE LET position_key == SpanOf(results[k])
                 IN IF position_key \notin seen_positions
                    THEN Loop(k + 1, Append(unique_results, results[k]),
                              seen_positions \cup {position_key})
                    ELSE Loop(k + 1, unique_results, seen_positions)
    IN Loop(1, <<>>, {})

\* What analyze hands to filter_unique_results: the results of the two
\* patterns, then the track-data results.
PciCombined(text, ignorecase) ==
    FindIter([i \in 0..Len(text) |-> PciCardMatchAt(text, i)],
             "PCI_DSS_CREDIT_CARD_OR_TRACK_DATA", 85000, 0)
    \o FindIter([i \in 0..Len(text) |-> PciTrackMatchAt(text, i, ignorecase)],
                "PCI_DSS_CREDIT_CARD_OR_TRACK_DATA", 90000, 0)
    \o PciDetectTrackData(text)

PciAnalyze ==
    /\ Pending("PCI_DSS_CreditCardAndTrackDataRecognizer.analyze")
    /\ LET unique_results == PciFilterUniqueResults(PciCombined(input.text, input.ignorecase))
       IN Finish(Return(IF Len(unique_results) > 0 THEN <<unique_results[1]>> ELSE <<>>))

PciFilter ==
    /\ Pending("PCI_DSS_CreditCardAndTrackDataRecognizer.filter_unique_results")
    /\ Finish(Return(PciFilterUniqueResults(input.results)))

\* The result lists handed to filter_unique_results.
PciResultLists ==
    SeqsUpTo(BaseResults("PCI_DSS_CREDIT_CARD_OR_TRACK_DATA")
                 \cup BaseResults("CREDIT_CARD_TRACK_DATA"), MaxScored + 1)

PciSentences ==
    TextsOf({<<>>, <<"x", "y", "z">>},
            {<<"4", "1", "1", "1", "1", "1", "1", "1", "1", "1", "1", "1", "1", "1", "1", "1">>, <<"4", "1", "1", "1", "-", "1", "1", "1", "1", "-", "1", "1", "1", "1", "-", "1", "1", "1", "1">>, <<"4", "1", "1", "1", "1", "1", "1", "1", "1", "1", "1", "1", "1", "1", "1", "2">>, <<"\"", "C", "r", "e", "d", "i", "t", "_", "C", "a", "r", "d", "_", "N", "u", "m", "b", "e", "r", "\"", " ", "s", " ", "1", " ", "\"", "4", "1", "1", "1", "1", "1", "1", "1", "1", "1", "1", "1", "1", "1", "1", "1", "\"">>, <<"\"", "C", "r", "e", "d", "i", "t", "_", "C", "a", "r", "d", "_", "N", "u", "m", "b", "e", "r", "\"", " ", "s", " ", "1", " ", "\"", "4", "1", "1", "1", "1", "1", "1", "1", "1", "1", "1", "1", "1", "1", "1", "2", "\"">>, <<"\"", "c", "r", "e", "d", "i", "t", "_", "c", "a", "r", "d", "_", "n", "u", "m", "b", "e", "r", "\"", " ", "s", " ", "1", " ", "\"", "4", "1", "1", "1", "1", "1", "1", "1", "1", "1", "1", "1", "1", "1", "1", "1", "\"">>, <<"\"", "C", "r", "e", "d", "i", "t", "_", "C", "a", "r", "d", "_", "N", "u", "m", "b", "e", "r", "\"", " ", "s", " ", "1", "2", " ", "\"", "4", "1", "1", "1", "1", "1", "1", "1", "1", "1", "1", "1", "1", "1", "1", "1", "\"", " ", "\"", "C", "r", "e", "d", "i", "t", "_", "C", "a", "r", "d", "_", "N", "u", "m", "b", "e", "r", "\"", " ", "s", " ", "1", " ", "\"", "5", "5", "0", "0", "0", "0", "0", "0", "0", "0", "0", "0", "0", "0", "0", "4", "\"">>, <<"4", "1", "1", "1", "1", "1", "1", "1", "1", "1", "1", "1", "1", "1", "1", "1", " ", "5", "5", "0", "0", " ", "0", "0", "0", "0", " ", "0", "0", "0", "0", " ", "0", "0", "0", "4">>, <<"\"", "C", "r", "e", "d", "i", "t", "_", "C", "a", "r", "d", "_", "N", "u", "m", "b", "e", "r", "\"", "s", "1", "\"", "4", "1", "1", "1", "1", "1", "1", "1", "1", "1", "1", "1", "1", "1", "1", "1", "\"">>, <<"\"", "C", "r", "e", "d", "i", "t", "_", "C", "a", "r", "d", "_", "N", "u", "m", "b", "e", "r", "\"", " ", "s", " ", "\"", "4", "1", "1", "1", "1", "1", "1", "1", "1", "1", "1", "1", "1", "1", "1", "1", "\"">>, <<"4", "1", "1", "1", "1", "1", "1", "1", "1", "1", "1", "1", "1", "1", "1">>},
            {<<>>, <<" ", "o", "k">>})

InitPci ==
    \/ Called("PCI_DSS_CreditCardAndTrackDataRecognizer.analyze",
              [text : PciSentences, ignorecase : BOOLEAN])
    \/ Called("PCI_DSS_CreditCardAndTrackDataRecognizer.filter_unique_results",
              [results : PciResultLists])

NextPci ==
    \/ PciAnalyze
    \/ PciFilter

SpecPci == InitPci /\ [][NextPci]_vars

\* The indices of the results that are the first of their (start, end) pair.
FirstOfSpan(results) ==
    {k \in 1..Len(results) : \A j \in 1..(k - 1) : SpanOf(results[j]) # SpanOf(results[k])}

\* C28: analyze returns at most one result, the first element of the
\* combined list (pattern results, then Luhn-valid track-data results) when
\* that list is not empty; filter_unique_results keeps, for each (start,
\* end) pair, the first result with that pair, in input order, and drops
\* the others.
C28_PciFirstHit ==
    /\ Returned("PCI_DSS_CreditCardAndTrackDataRecognizer.analyze")
       => LET combined == PciCombined(input.text, input.ignorecase)
          IN /\ Len(returned.value) <= 1
             /\ combined # <<>> => returned.value = <<combined[1]>>
             /\ combined = <<>> => returned.value = <<>>
    /\ Returned("PCI_DSS_CreditCardAndTrackDataRecognizer.filter_unique_results")
       => LET firsts == FirstOfSpan(input.results)
              rank(k) == Cardinality({j \in firsts : j <= k})
          IN /\ Len(returned.value) = Cardinality(firsts)
             /\ \A k \in firsts : returned.value[rank(k)] = input.results[k]

\* C28 witness: filter_unique_results was given three results, the second
\* and the third with the span of the first and other scores, and returned
\* the first alone.
C28_Witness ==
    /\ Returned("PCI_DSS_CreditCardAndTrackDataRecognizer.filter_unique_results")
    /\ Len(input.results) = 3
    /\ SpanOf(input.results[2]) = SpanOf(input.results[1])
    /\ SpanOf(input.results[3]) = SpanOf(input.results[1])
    /\ input.results[2].score # input.results[1].score
    /\ input.results[3].score # input.results[1].score
    /\ returned.value = <<input.results[1]>>

\* The highest score of a list that is not empty.
MaxScore(list) ==
    CHOOSE sc \in {list[k].score : k \in 1..Len(list)} :
        \A k \in 1..Len(list) : list[k].score <= sc

\* C29: the overlap filter of CanadaDriversLicenceRecognizer.analyze never
\* loses the best score and never grows the list: the highest score of the
\* returned results is the highest score of the candidates, there are at
\* most as many results as candidates, and no candidates give no results.
C29_FilterKeepsBestScore ==
    Returned("CanadaDriversLicenceRecognizer.analyze")
    => /\ Len(returned.value) <= Len(input)
       /\ input = <<>> => returned.value = <<>>
       /\ input # <<>> => /\ returned.value # <<>>
                          /\ MaxScore(returned.value) = MaxScore(input)

\* C29 witness: three candidates that overlap one another, the last with
\* the highest score, were reduced to fewer results, and the highest score
\* is among them.
C29_Witness ==
    /\ Returned("CanadaDriversLicenceRecognizer.analyze")
    /\ Len(input) = 3
    /\ \A i, j \in 1..3 : Intersect(input[i], input[j])
    /\ input[3].score > input[1].score
    /\ input[3].score > input[2].score
    /\ Len(returned.value) < Len(input)
    /\ MaxScore(returned.value) = input[3].score

\* C30: on every string of digits, spaces and hyphens, the strings without
\* a digit included, AllCreditCardNumberRecognizer._is_valid_credit_card
\* returns the boolean that the validate_ccn / luhn_checksum helper of the
\* track-data, issuer and PCI-DSS recognizers returns.
C30_LuhnImplementationsAgree ==
    (/\ Returned("AllCreditCardNumberRecognizer._is_valid_credit_card")
     /\ \A i \in 1..Len(input) : IsDigit(input[i]) \/ input[i] \in {" ", "-"})
    => /\ returned.value = TrackValidateCcn(input)
       /\ returned.value = IssuerValidateResult(input)
       /\ returned.value = PciValidateCcn(input)

====
